---- MODULE Spec2Model ----
(***************************************************************************)
(* Model of the durable job queue of theleeeo/indexer (package jobqueue):  *)
(* the job_groups and jobs tables, Enqueue, the worker loops (claimGroup,  *)
(* claimNextJobInGroup, runOne with its heartbeat, finish, releaseGroup),  *)
(* the reaper and the cleaner.                                             *)
(*                                                                         *)
(* Every SQL statement, and every transaction that holds the job_groups    *)
(* row FOR UPDATE, is one atomic step, but for the DELETE of               *)
(* purgeEmptyGroups: under READ COMMITTED its subselect reads the          *)
(* statement's snapshot, while its row locks, the delete and the cascade   *)
(* act on the rows committed by the time they run.  Time is the database   *)
(* clock now(), in seconds.                                                *)
(*                                                                         *)
(* Above the queue, the indexing pipeline (package app): the relations     *)
(* table of the PostgresStore, the search documents behind the es client,  *)
(* the Register* calls that write relations and enqueue jobs, and the      *)
(* handlers that the workers run.                                          *)
(***************************************************************************)
EXTENDS Integers, Sequences, FiniteSets, TLC

\* ---------------------------------------------------------------- bounds
MaxTime == 2
MaxJobs == 2
AttemptCap == 2
LeaseDuration == 1
MaxBatchPerGroup == 2
RetainSucceeded == 1
RetainDead == 1
CleanBatchSize == 2
RetryDelay == 2
OptMaxAttempts == 2
MaxBatch == 2
MaxEvents == 3
MaxAppJobs == 6
MaxBatchEvents == 3
MaxConfigs == 2
MaxRelations == 2
MaxTerms == 2
MaxLiveTerms == 1
MaxBudget == 70
MaxReaps == 3
MaxParents == 2

\* ------------------------------------------------------ program constants
BackoffBase == 1
BackoffCap == 300
DefaultMaxAttempts == 0
TruncMax == 2000
ReapNoteLen == 30

Groups == {"g1", "g2"}
Loops == {1, 2}
WorkerIDs == {"w1", "w2"}

\* SQL NULL of a timestamp column, of a text column, of a *int option.
NULL == 0 - 1
NoWorker == "NULL"

VARIABLES
    now,        \* the database clock
    groups,     \* table job_groups: job_group -> [locked_by, locked_until]
    jobs,       \* table jobs: id (= ordering_seq) -> row
    nextSeq,    \* the identity sequence behind jobs.ordering_seq
    loops,      \* each worker loop's position and locals
    workerID,   \* cfg.WorkerID of the Worker each loop belongs to
    handler,    \* the errors the registered Handler may return
    enq,        \* the Enqueue call in flight, between its two statements
    cleaner,    \* the statement CleanupOnce runs next, and the groups it selected
    stopFetch,  \* Worker.stopFetch, per WorkerID
    ctxDone     \* whether the context given to Worker.Start is cancelled, per WorkerID

VARIABLES
    relations,  \* table relations: (parent, child) -> the number of its rows
    call,       \* the last call of the store or of the app, and the error it returned
    docs,       \* the search backend: resource -> its document
    payloads,   \* columns type and payload of table jobs, by job id
    running,    \* per worker loop, the handler call of the job it runs
    published   \* the Register calls so far, in order, each with the error it returned

\* The queue's state, which the calls of the store leave alone.
queue == <<now, groups, jobs, nextSeq, loops, workerID, handler, enq, cleaner, stopFetch, ctxDone>>

\* The state that only the Register calls and the handlers touch.
pipeline == <<docs, payloads, running, published>>

VARIABLES
    schema,     \* main's resource.Configs: how far main got with it, the configs, Validate's error
    stop,       \* per WorkerID, the Stop call: whether stopCtx is done, and what Stop returned
    maint,      \* per WorkerID, whether reaperLoop and cleanerLoop have returned
    elector,    \* per LeaderElector: where Run is, its configuration, its current term
    advisoryLock \* the session that holds the advisory lock of the LockName

\* The Stop call and the goroutines of loopsWG besides the worker loops.
shutdown == <<stop, maint>>

\* The leader election.
leader == <<elector, advisoryLock>>

VARIABLES
    ladder,     \* one job that fails again and again: its columns, the delay of its
                \* last requeue and what wrote its row last
    errText,    \* one job's status and last_error, character by character, and its reaps so far
    memory      \* MemoryStore.relations: child -> the list of its parents

\* The parts of the program that are run on their own.
units == <<ladder, errText, memory>>

\* The state of the process around the worker and the pipeline.
host == <<schema, shutdown, leader, units>>

\* The pipeline's state, which the queue's own steps leave alone.
app == <<relations, call, pipeline, host>>

vars == <<queue, app>>

\* ----------------------------------------------------------------- errors
\* What the handler returned, by what errors.As / errors.Is find in its chain.
ErrNil == "nil"
HandlerErrors == {"nil", "transient", "permanent", "retry", "canceled", "permanent_canceled"}

IsRetryError(e) == e = "retry"
IsPermanentError(e) == e \in {"permanent", "permanent_canceled"}
IsCanceled(e) == e \in {"canceled", "permanent_canceled"}

Min(a, b) == IF a < b THEN a ELSE b

\* time.Duration is an int64 count of nanoseconds: a value is the set of the
\* positions of its one bits, position Word - 1 being the sign.
Word == 64
Zero == {}

\* The bits of a natural number below 2^31.
Bits(n) == {i \in 0 .. 30 : (n \div 2^i) % 2 = 1}

RECURSIVE Val(_)
Val(S) == IF S = {} THEN 0 ELSE LET b == CHOOSE x \in S : TRUE IN 2^b + Val(S \ {b})

\* x << k on an int64: the bits shifted past the word are lost.
Shl(x, k) == IF k <= 0 THEN x ELSE {b + k : b \in x} \cap (0 .. Word - 1)

\* a < b on two int64.
Less(a, b) ==
    IF ((Word - 1) \in a) # ((Word - 1) \in b) THEN (Word - 1) \in a
    ELSE \E i \in b \ a : \A j \in (i + 1) .. (Word - 1) : (j \in a) <=> (j \in b)

\* time.Second is 10^9 ns = 1953125 * 2^9 ns.
SecondOdd == 1953125
SecondShift == 9

\* n * time.Second, for n of at most a thousand.
Seconds(n) == Shl(Bits(n * SecondOdd), SecondShift)

\* The whole seconds in a duration of at most 2^39 ns, what the clock of the
\* model counts.
WholeSeconds(d) == Val({b - SecondShift : b \in d \cap (SecondShift .. Word - 1)}) \div SecondOdd

defaultBackoff(attempt) ==
    LET base == Seconds(BackoffBase)
        max == Seconds(BackoffCap)
        d == Shl(base, attempt - 1)
    IN  IF Less(max, d) THEN max ELSE d

\* micros: a delay of zero or less is no delay.
micros(d) == IF ~Less(Zero, d) THEN 0 ELSE WholeSeconds(d)

\* A text is the sequence of its characters; NULL and '' are <<>>.
\* err.Error(): in the queue, the message of an error is one symbol that
\* names what the error is.
Error(e) == <<e>>

\* A message of n one-byte characters.
Message(n) == [i \in 1 .. n |-> "x"]

\* truncErr: the first TruncMax bytes of a longer message and an ellipsis.
truncErr(s) == IF Len(s) > TruncMax THEN SubSeq(s, 1, TruncMax) \o <<"...">> ELSE s

ReapNote == "requeued after lease expiry"

\* ' | requeued after lease expiry', character by character.
ReapNoteText == [i \in 1 .. ReapNoteLen |-> "r"]

\* ----------------------------------------------------------------- tables
NoCall == [group |-> "none"]

NewGroupRow == [locked_by |-> NoWorker, locked_until |-> NULL]

NewJobRow(g, runAfter, maxAttempts) ==
    [job_group |-> g, run_after |-> runAfter, attempts |-> 0,
     max_attempts |-> maxAttempts, status |-> "queued",
     started_at |-> NULL, finished_at |-> NULL, last_error |-> <<>>,
     locked_by |-> NoWorker, locked_until |-> NULL]

JobsOf(g) == {j \in DOMAIN jobs : jobs[j].job_group = g}

\* DELETE FROM jobs WHERE id IN S.
DeleteJobs(S) == [j \in DOMAIN jobs \ S |-> jobs[j]]

\* ---------------------------------------------------------------- Enqueue
\* EnqueueOptions: a nil field is NULL.
EnqueueOpts(runAfters) ==
    [RunAfter : runAfters, MaxAttempts : {NULL, OptMaxAttempts}]

\* First statement: INSERT INTO job_groups ... ON CONFLICT DO NOTHING.
EnqueueGroup(g, opts) ==
    /\ enq = NoCall
    /\ nextSeq <= MaxJobs
    /\ LET runAfter == IF opts.RunAfter # NULL THEN opts.RunAfter ELSE now
           maxAttempts == IF opts.MaxAttempts # NULL THEN opts.MaxAttempts
                          ELSE DefaultMaxAttempts
       IN  enq' = [group |-> g, opts |-> opts, runAfter |-> runAfter,
                   maxAttempts |-> maxAttempts]
    /\ groups' = IF g \in DOMAIN groups THEN groups ELSE groups @@ (g :> NewGroupRow)
    /\ UNCHANGED <<now, jobs, nextSeq, loops, workerID, handler, app, cleaner, stopFetch, ctxDone>>

\* Second statement: INSERT INTO jobs ... RETURNING id.  The identity sequence
\* advances even when the foreign key on job_group rejects the row.
EnqueueJob ==
    /\ enq # NoCall
    /\ nextSeq' = nextSeq + 1
    /\ jobs' = IF enq.group \in DOMAIN groups
               THEN jobs @@ (nextSeq :> NewJobRow(enq.group, enq.runAfter, enq.maxAttempts))
               ELSE jobs
    /\ enq' = NoCall
    /\ UNCHANGED <<now, groups, loops, workerID, handler, app, cleaner, stopFetch, ctxDone>>

\* ---------------------------------------------------------------- cleanup
MaxBatchesPerClean == 2

\* WHERE status = $1 AND finished_at IS NOT NULL AND finished_at < now() - retain
RetentionEligible(j, status, retain) ==
    /\ jobs[j].status = status
    /\ jobs[j].finished_at # NULL
    /\ jobs[j].finished_at < now - retain

\* ORDER BY finished_at LIMIT batchSize: the batches a statement may delete.
RetentionBatches(status, retain) ==
    LET E == {j \in DOMAIN jobs : RetentionEligible(j, status, retain)}
        k == Min(CleanBatchSize, Cardinality(E))
    IN  {S \in SUBSET E :
            /\ Cardinality(S) = k
            /\ \A a \in S, b \in E \ S : jobs[a].finished_at <= jobs[b].finished_at}

NoGroups == {}

NextPhase(p) ==
    CASE p = "succeeded" -> "dead"
      [] p = "dead" -> "groups"
      [] OTHER -> "succeeded"

\* for range maxBatches { ...; if tag.RowsAffected() == 0 { return nil } }
CleanerAfter(phase, rows) ==
    IF rows = 0 \/ cleaner.batch + 1 >= MaxBatchesPerClean
    THEN [phase |-> NextPhase(phase), batch |-> 0, sel |-> NoGroups]
    ELSE [phase |-> phase, batch |-> cleaner.batch + 1, sel |-> NoGroups]

purgeJobsByRetention(status, retain) ==
    /\ cleaner.phase = status
    /\ \E S \in RetentionBatches(status, retain) :
        /\ jobs' = DeleteJobs(S)
        /\ cleaner' = CleanerAfter(status, Cardinality(S))
    /\ UNCHANGED <<now, groups, nextSeq, loops, workerID, handler, app, enq, stopFetch, ctxDone>>

\* WHERE (locked_until IS NULL OR locked_until < now())
\*   AND NOT EXISTS (SELECT 1 FROM jobs WHERE jobs.job_group = job_groups.job_group)
EmptyGroup(g) ==
    /\ groups[g].locked_until = NULL \/ groups[g].locked_until < now
    /\ JobsOf(g) = {}

\* The subselect of purgeEmptyGroups' DELETE, on the statement's snapshot:
\* SELECT job_group FROM job_groups WHERE ... LIMIT $1.  A statement that
\* selects nothing affects no row.
purgeEmptyGroupsSelect ==
    /\ cleaner.phase = "groups"
    /\ LET E == {g \in DOMAIN groups : EmptyGroup(g)}
           k == Min(CleanBatchSize, Cardinality(E))
       IN  \E S \in {T \in SUBSET E : Cardinality(T) = k} :
            cleaner' = IF S = {} THEN CleanerAfter("groups", 0)
                       ELSE [cleaner EXCEPT !.phase = "groupsDelete", !.sel = S]
    /\ UNCHANGED <<now, groups, jobs, nextSeq, loops, workerID, handler, app, enq, stopFetch, ctxDone>>

\* FOR UPDATE SKIP LOCKED, then DELETE FROM job_groups WHERE job_group IN
\* (the selected): locking a row that was updated since the snapshot checks
\* the conditions on job_groups again on the row as it is now, NOT EXISTS
\* still reads jobs from the snapshot; jobs.job_group REFERENCES job_groups
\* ON DELETE CASCADE deletes the jobs that reference the deleted rows now.
purgeEmptyGroupsDelete ==
    /\ cleaner.phase = "groupsDelete"
    /\ LET S == {g \in cleaner.sel \cap DOMAIN groups :
                    groups[g].locked_until = NULL \/ groups[g].locked_until < now}
       IN  /\ groups' = [g \in DOMAIN groups \ S |-> groups[g]]
           /\ jobs' = DeleteJobs({j \in DOMAIN jobs : jobs[j].job_group \in S})
           /\ cleaner' = CleanerAfter("groups", Cardinality(S))
    /\ UNCHANGED <<now, nextSeq, loops, workerID, handler, app, enq, stopFetch, ctxDone>>

purgeEmptyGroups ==
    \/ purgeEmptyGroupsSelect
    \/ purgeEmptyGroupsDelete

CleanupOnce ==
    \/ purgeJobsByRetention("succeeded", RetainSucceeded)
    \/ purgeJobsByRetention("dead", RetainDead)
    \/ purgeEmptyGroups

\* ------------------------------------------------------------------ clock
Tick ==
    /\ now < MaxTime
    /\ now' = now + 1
    /\ UNCHANGED <<groups, jobs, nextSeq, loops, workerID, handler, app, enq, cleaner, stopFetch, ctxDone>>

\* The clock beyond MaxTime: time advances by one and every timestamp is
\* rebased by one, so now stays MaxTime.  A timestamp is not moved below the
\* oldest value that the comparisons made with its column tell apart:
\* locked_until < now(), run_after <= now(), finished_at < now() - retain;
\* started_at is never read.
Rebase(t, floor) == IF t # NULL /\ t > floor THEN t - 1 ELSE t

TickPastHorizon ==
    /\ now = MaxTime
    /\ groups' = [g \in DOMAIN groups |->
                    [groups[g] EXCEPT !.locked_until = Rebase(@, now - 1)]]
    /\ jobs' = [j \in DOMAIN jobs |->
                    [jobs[j] EXCEPT !.run_after = Rebase(@, now),
                                    !.started_at = Rebase(@, now),
                                    !.finished_at = Rebase(@, 0),
                                    !.locked_until = Rebase(@, now - 1)]]
    /\ UNCHANGED <<now, nextSeq, loops, workerID, handler, app, enq, cleaner, stopFetch, ctxDone>>

\* ----------------------------------------------------------- group leases
\* SELECT (locked_by = $1) AND (locked_until IS NOT NULL) AND (locked_until >= now())
\* FROM job_groups WHERE job_group = $2, scanned into a bool: "norows" is
\* pgx.ErrNoRows, "null" a NULL the scan rejects (three-valued AND).
LeaseCheck(g, w) ==
    IF g \notin DOMAIN groups THEN "norows"
    ELSE IF groups[g].locked_until = NULL THEN "false"
    ELSE IF groups[g].locked_by = NoWorker
         THEN (IF groups[g].locked_until >= now THEN "null" ELSE "false")
    ELSE IF groups[g].locked_by = w /\ groups[g].locked_until >= now THEN "true"
    ELSE "false"

\* A claimGroup that takes a lease in the second it expires.
GroupLeaseFree_AtExpiry(g) ==
    groups[g].locked_until = NULL \/ groups[g].locked_until <= now

\* WHERE g.locked_until IS NULL OR g.locked_until < now()
GroupLeaseFree(g) ==
    groups[g].locked_until = NULL \/ groups[g].locked_until < now

\* WHERE status='queued' AND run_after <= now()
ClaimEligible(j) ==
    jobs[j].status = "queued" /\ jobs[j].run_after <= now

Runnable(g) == {j \in JobsOf(g) : ClaimEligible(j)}

MinOf(S) == CHOOSE x \in S : \A y \in S : x <= y

\* The candidate of claimGroup: JOIN q ... ORDER BY q.next_ts LIMIT 1.
\* A claimGroup that takes only groups whose lease was released, never one
\* whose lease expired.
CandidateGroups_ReleasedOnly ==
    LET C == {g \in DOMAIN groups : Runnable(g) # {} /\ groups[g].locked_until = NULL}
    IN  {g \in C : \A h \in C : MinOf(Runnable(g)) <= MinOf(Runnable(h))}

CandidateGroups ==
    LET C == {g \in DOMAIN groups : Runnable(g) # {} /\ GroupLeaseFree(g)}
    IN  {g \in C : \A h \in C : MinOf(Runnable(g)) <= MinOf(Runnable(h))}

\* ----------------------------------------------------------- worker loops
IdleLoop == [pc |-> "idle", group |-> "none", n |-> 0, job |-> 0, attempts |-> 0,
             maxAttempts |-> 0, runErr |-> ErrNil, leaseLost |-> FALSE,
             cancelled |-> FALSE]

Me(l) == workerID[l]

Stopping(l) == ctxDone[Me(l)] \/ stopFetch[Me(l)]

\* loop, top: if ctx.Err() != nil || w.stopFetch.Load() { return }
LoopExit(l) ==
    /\ loops[l].pc = "idle"
    /\ Stopping(l)
    /\ loops' = [loops EXCEPT ![l] = [IdleLoop EXCEPT !.pc = "exit"]]
    /\ UNCHANGED <<now, groups, jobs, nextSeq, workerID, handler, app, enq, cleaner, stopFetch, ctxDone>>

claimGroup(l) ==
    /\ loops[l].pc = "idle"
    /\ ~Stopping(l)
    /\ \E g \in CandidateGroups :
        /\ groups' = [groups EXCEPT ![g] =
                        [locked_by |-> Me(l), locked_until |-> now + LeaseDuration]]
        /\ loops' = [loops EXCEPT ![l] = [IdleLoop EXCEPT !.pc = "batch", !.group = g]]
    /\ UNCHANGED <<now, jobs, nextSeq, workerID, handler, app, enq, cleaner, stopFetch, ctxDone>>

\* for n := 0; n < w.cfg.MaxBatchPerGroup; n++: the loop ends, nothing is released.
BatchLimit(l) ==
    /\ loops[l].pc = "batch"
    /\ loops[l].n >= MaxBatchPerGroup
    /\ loops' = [loops EXCEPT ![l] = IdleLoop]
    /\ UNCHANGED <<now, groups, jobs, nextSeq, workerID, handler, app, enq, cleaner, stopFetch, ctxDone>>

\* if ctx.Err() != nil || w.stopFetch.Load() { releaseGroup(context.Background(), group); return }
BatchStop(l) ==
    /\ loops[l].pc = "batch"
    /\ loops[l].n < MaxBatchPerGroup
    /\ Stopping(l)
    /\ loops' = [loops EXCEPT ![l].pc = "releaseExit"]
    /\ UNCHANGED <<now, groups, jobs, nextSeq, workerID, handler, app, enq, cleaner, stopFetch, ctxDone>>

ClaimedRow(j, w) ==
    [jobs[j] EXCEPT !.status = "running", !.attempts = @ + 1, !.locked_by = w,
                    !.locked_until = now + LeaseDuration, !.started_at = now]

claimNextJobInGroup(l) ==
    /\ loops[l].pc = "batch"
    /\ loops[l].n < MaxBatchPerGroup
    /\ ~Stopping(l)
    /\ LET g == loops[l].group
       IN  IF LeaseCheck(g, Me(l)) # "true" \/ Runnable(g) = {}
           THEN \* ErrNoWork, ErrLeaseLost or an error: release and break
                /\ loops' = [loops EXCEPT ![l].pc = "release"]
                /\ jobs' = jobs
           ELSE LET j == MinOf(Runnable(g))
                IN  /\ jobs[j].attempts < AttemptCap
                    /\ jobs' = [jobs EXCEPT ![j] = ClaimedRow(j, Me(l))]
                    /\ loops' = [loops EXCEPT ![l].pc = "running", ![l].job = j,
                                    ![l].attempts = jobs[j].attempts + 1,
                                    ![l].maxAttempts = jobs[j].max_attempts]
    /\ UNCHANGED <<now, groups, nextSeq, workerID, handler, app, enq, cleaner, stopFetch, ctxDone>>

\* UPDATE job_groups SET locked_by = NULL, locked_until = NULL
\* WHERE job_group = $1 AND locked_by = $2
ReleasedGroups(g, w) ==
    IF g \in DOMAIN groups /\ groups[g].locked_by = w
    THEN [groups EXCEPT ![g] = NewGroupRow]
    ELSE groups

\* releaseGroup(ctx, group) after a break (fails when ctx is cancelled), or
\* releaseGroup(context.Background(), group) before the loop returns.
releaseGroup(l) ==
    /\ loops[l].pc \in {"release", "releaseExit"}
    /\ groups' = IF loops[l].pc = "release" /\ ctxDone[Me(l)]
                 THEN groups
                 ELSE ReleasedGroups(loops[l].group, Me(l))
    /\ loops' = [loops EXCEPT ![l] =
                    IF loops[l].pc = "release" THEN IdleLoop
                    ELSE [IdleLoop EXCEPT !.pc = "exit"]]
    /\ UNCHANGED <<now, jobs, nextSeq, workerID, handler, app, enq, cleaner, stopFetch, ctxDone>>

\* ----------------------------------------------------------------- runOne
\* The handler's scope: jobCtx is cancelled by its own cancel() or with ctx.
ScopeCancelled(l) == loops[l].cancelled \/ ctxDone[Me(l)]

\* A gate that forgets status='running'.
HoldsJob_AnyStatus(j, w) ==
    /\ j \in DOMAIN jobs
    /\ jobs[j].locked_by = w

\* A gate that forgets locked_by = me.
HoldsJob_AnyOwner(j, w) ==
    /\ j \in DOMAIN jobs
    /\ jobs[j].status = "running"

\* WHERE id = $2 AND locked_by = $3 AND status='running'
HoldsJob(j, w) ==
    /\ j \in DOMAIN jobs
    /\ jobs[j].locked_by = w
    /\ jobs[j].status = "running"

\* WHERE job_group = $2 AND locked_by = $3
HoldsGroupRow(g, w) == g \in DOMAIN groups /\ groups[g].locked_by = w

\* One tick of the heartbeat goroutine: extend the group lease, then the job
\* lease; zero rows on either reports the lease lost and cancels the scope.
heartbeat(l) ==
    /\ loops[l].pc = "running"
    /\ ~ScopeCancelled(l)
    /\ LET g == loops[l].group
           j == loops[l].job
           w == Me(l)
       IN  /\ groups' = IF HoldsGroupRow(g, w)
                        THEN [groups EXCEPT ![g].locked_until = now + LeaseDuration]
                        ELSE groups
           /\ jobs' = IF HoldsGroupRow(g, w) /\ HoldsJob(j, w)
                      THEN [jobs EXCEPT ![j].locked_until = now + LeaseDuration]
                      ELSE jobs
           /\ loops' = IF HoldsGroupRow(g, w) /\ HoldsJob(j, w)
                       THEN loops
                       ELSE [loops EXCEPT ![l].leaseLost = TRUE, ![l].cancelled = TRUE]
    /\ UNCHANGED <<now, nextSeq, workerID, handler, app, enq, cleaner, stopFetch, ctxDone>>

\* A finish that ends a job only once attempts exceeds max_attempts.
FinishDisposition_OneMore(e, attempts, maxAttempts) ==
    LET permanent == IsPermanentError(e) /\ ~IsCanceled(e)
    IN  IF e = ErrNil THEN "succeeded"
        ELSE IF permanent \/ attempts > maxAttempts THEN "dead"
        ELSE "queued"

\* What finish does with the handler's error: "succeeded", "dead" or "queued".
FinishDisposition(e, attempts, maxAttempts) ==
    LET permanent == IsPermanentError(e) /\ ~IsCanceled(e)
    IN  IF e = ErrNil THEN "succeeded"
        ELSE IF permanent \/ attempts >= maxAttempts THEN "dead"
        ELSE "queued"

\* delay := defaultBackoff(attempts); if retryAfter != nil { delay = *retryAfter }
FinishDelay(e, attempts) ==
    IF IsCanceled(e) THEN 0
    ELSE IF IsRetryError(e) THEN RetryDelay
    ELSE micros(defaultBackoff(attempts))

\* A finish whose retry branch leaves the lock columns of the job as they are.
FinishedRow_KeepLock(j, e, attempts, maxAttempts) ==
    LET d == FinishDisposition(e, attempts, maxAttempts)
    IN  CASE d = "succeeded" ->
                [jobs[j] EXCEPT !.status = "succeeded", !.finished_at = now,
                                !.locked_until = NULL]
          [] d = "dead" ->
                [jobs[j] EXCEPT !.status = "dead", !.finished_at = now,
                                !.last_error = truncErr(Error(e)), !.locked_until = NULL]
          [] OTHER ->
                [jobs[j] EXCEPT !.status = "queued", !.last_error = truncErr(Error(e)),
                                !.run_after = now + FinishDelay(e, attempts)]

\* The row the gated UPDATE of finish writes.
FinishedRow(j, e, attempts, maxAttempts) ==
    LET d == FinishDisposition(e, attempts, maxAttempts)
    IN  CASE d = "succeeded" ->
                [jobs[j] EXCEPT !.status = "succeeded", !.finished_at = now,
                                !.locked_until = NULL]
          [] d = "dead" ->
                [jobs[j] EXCEPT !.status = "dead", !.finished_at = now,
                                !.last_error = truncErr(Error(e)), !.locked_until = NULL]
          [] OTHER ->
                [jobs[j] EXCEPT !.status = "queued", !.locked_by = NoWorker,
                                !.locked_until = NULL, !.last_error = truncErr(Error(e)),
                                !.run_after = now + FinishDelay(e, attempts)]

\* runOne returned: the batch loop's n++.
NextInBatch(l) ==
    [IdleLoop EXCEPT !.pc = "batch", !.group = loops[l].group, !.n = loops[l].n + 1]

\* A runOne that calls finish although the heartbeat reported the lease lost.
HandlerReturn_IgnoreLeaseLost(l, e) ==
    /\ loops[l].pc = "running"
    /\ loops' = [loops EXCEPT ![l] =
                    IF \/ ctxDone[Me(l)]
                       \/ LeaseCheck(loops[l].group, Me(l)) = "false"
                    THEN NextInBatch(l)
                    ELSE [loops[l] EXCEPT !.pc = "finish", !.runErr = e]]
    /\ UNCHANGED <<now, groups, jobs, nextSeq, workerID, handler, app, enq, cleaner, stopFetch, ctxDone>>

\* The handler returns e.  runOne stops the heartbeat and, unless the lease was
\* reported lost, calls finish: BeginTx (fails on a cancelled ctx), then the
\* unlocked read of the group lease.
HandlerReturn(l, e) ==
    /\ loops[l].pc = "running"
    /\ loops' = [loops EXCEPT ![l] =
                    IF \/ loops[l].leaseLost
                       \/ ctxDone[Me(l)]
                       \/ LeaseCheck(loops[l].group, Me(l)) = "false"
                    THEN NextInBatch(l)
                    ELSE [loops[l] EXCEPT !.pc = "finish", !.runErr = e]]
    /\ UNCHANGED <<now, groups, jobs, nextSeq, workerID, handler, app, enq, cleaner, stopFetch, ctxDone>>

\* The gated UPDATE of finish and its commit.
finish(l) ==
    /\ loops[l].pc = "finish"
    /\ LET j == loops[l].job
       IN  jobs' = IF HoldsJob(j, Me(l)) /\ ~ctxDone[Me(l)]
                   THEN [jobs EXCEPT ![j] =
                           FinishedRow(j, loops[l].runErr, loops[l].attempts,
                                       loops[l].maxAttempts)]
                   ELSE jobs
    /\ loops' = [loops EXCEPT ![l] = NextInBatch(l)]
    /\ UNCHANGED <<now, groups, nextSeq, workerID, handler, app, enq, cleaner, stopFetch, ctxDone>>

\* ----------------------------------------------------------------- reaper
\* A reaper that looks for running rows without a lease.
ReapEligible_Unlocked(j) ==
    /\ jobs[j].status = "running"
    /\ jobs[j].locked_until = NULL

\* WHERE status='running' AND locked_until IS NOT NULL AND locked_until < now()
ReapEligible(j) ==
    /\ jobs[j].status = "running"
    /\ jobs[j].locked_until # NULL
    /\ jobs[j].locked_until < now

\* A reaper that also gives the job its attempts back.
ReapedRow_ResetAttempts(j) ==
    [jobs[j] EXCEPT !.status = "queued", !.locked_by = NoWorker,
                    !.locked_until = NULL, !.run_after = now, !.attempts = 0,
                    !.last_error = Append(@, ReapNote)]

ReapedRow(j) ==
    [jobs[j] EXCEPT !.status = "queued", !.locked_by = NoWorker,
                    !.locked_until = NULL, !.run_after = now,
                    !.last_error = Append(@, ReapNote)]

ReapExpiredRunning ==
    /\ \E j \in DOMAIN jobs : ReapEligible(j)
    /\ jobs' = [j \in DOMAIN jobs |-> IF ReapEligible(j) THEN ReapedRow(j) ELSE jobs[j]]
    /\ UNCHANGED <<now, groups, nextSeq, loops, workerID, handler, app, enq, cleaner, stopFetch, ctxDone>>

\* --------------------------------------------------------------- shutdown
\* Stop: w.stopFetch.Store(true)
Stop(w) ==
    /\ ~stopFetch[w]
    /\ stopFetch' = [stopFetch EXCEPT ![w] = TRUE]
    /\ UNCHANGED <<now, groups, jobs, nextSeq, loops, workerID, handler, app, enq, cleaner, ctxDone>>

\* Stop, on stopCtx.Done(): for _, cancel := range w.inFlight { cancel() }
StopDeadline(w) ==
    /\ stopFetch[w]
    /\ \E l \in DOMAIN workerID : Me(l) = w /\ loops[l].pc = "running" /\ ~loops[l].cancelled
    /\ loops' = [l \in DOMAIN workerID |->
                    IF Me(l) = w /\ loops[l].pc = "running"
                    THEN [loops[l] EXCEPT !.cancelled = TRUE]
                    ELSE loops[l]]
    /\ UNCHANGED <<now, groups, jobs, nextSeq, workerID, handler, app, enq, cleaner, stopFetch, ctxDone>>

\* The context given to Start is cancelled.
CancelCtx(w) ==
    /\ ~ctxDone[w]
    /\ ctxDone' = [ctxDone EXCEPT ![w] = TRUE]
    /\ UNCHANGED <<now, groups, jobs, nextSeq, loops, workerID, handler, app, enq, cleaner, stopFetch>>

\* The process of Worker w dies: its loops take no further step and their
\* locals are gone; job stays, to name the job the loop had claimed.
Crash(w) ==
    /\ \E l \in DOMAIN workerID : workerID[l] = w /\ loops[l].pc # "crashed"
    /\ loops' = [l \in DOMAIN workerID |->
                    IF workerID[l] = w
                    THEN [IdleLoop EXCEPT !.pc = "crashed",
                                          !.job = IF loops[l].pc \in {"running", "finish"}
                                                  THEN loops[l].job ELSE 0]
                    ELSE loops[l]]
    /\ UNCHANGED <<now, groups, jobs, nextSeq, workerID, handler, app, enq, cleaner, stopFetch, ctxDone>>

\* ------------------------------------------------------ the relation store
\* model.Resource{Type, Id} and store.Relation{Parent, Child}.
Types == {"a", "b", "c"}
Ids == {"1"}
Resources == Types \X Ids
Relation == {r \in [Parent : Resources, Child : Resources] : r.Parent # r.Child}

\* The relation lists and resource lists that callers pass.
Batches == UNION {[1..n -> Relation] : n \in 0..MaxBatch}
ChildLists(p) == UNION {[1..n -> Resources \ {p}] : n \in 0..MaxBatch}

NoRelations == [rel \in Relation |-> 0]
StoreCall(op, args, err) == [op |-> op, args |-> args, err |-> err]
StoreInit ==
    /\ relations = NoRelations
    /\ call = StoreCall("none", << >>, ErrNil)

\* INSERT INTO relations ... ON CONFLICT DO NOTHING, under the table's
\* UNIQUE (resource, resource_id, related_resource, related_resource_id).
InsertRelation_NoConflictClause(t, rel) ==
    IF t[rel] > 0 THEN [table |-> t, err |-> "unique_violation"]
    ELSE [table |-> [t EXCEPT ![rel] = 1], err |-> ErrNil]

InsertRelation(t, rel) ==
    [table |-> IF t[rel] > 0 THEN t ELSE [t EXCEPT ![rel] = 1], err |-> ErrNil]

\* The queued statements of one pgx.Batch, in order, up to the first error.
RECURSIVE SendInserts(_, _)
SendInserts(t, rels) ==
    IF rels = << >> THEN [table |-> t, err |-> ErrNil]
    ELSE LET r == InsertRelation(t, Head(rels))
         IN  IF r.err # ErrNil THEN r ELSE SendInserts(r.table, Tail(rels))

\* The batch is one implicit transaction: an error leaves the table as it was.
addRelationsBatch(t, rels) ==
    IF Len(rels) = 0 THEN [table |-> t, err |-> ErrNil]
    ELSE LET r == SendInserts(t, rels)
         IN  IF r.err # ErrNil THEN [table |-> t, err |-> r.err] ELSE r

AddRelations(rels) ==
    LET r == addRelationsBatch(relations, rels)
    IN  /\ relations' = r.table
        /\ call' = StoreCall("AddRelations", rels, r.err)
        /\ UNCHANGED <<queue, pipeline, host>>

\* DELETE FROM relations WHERE related_resource = .. AND resource = ..
RECURSIVE removeRelationsBatch(_, _)
removeRelationsBatch(t, rels) ==
    IF rels = << >> THEN t
    ELSE removeRelationsBatch([t EXCEPT ![Head(rels)] = 0], Tail(rels))

RemoveRelation(rel) ==
    /\ relations' = removeRelationsBatch(relations, <<rel>>)
    /\ call' = StoreCall("RemoveRelation", rel, ErrNil)
    /\ UNCHANGED <<queue, pipeline, host>>

\* DELETE FROM relations WHERE resource = $1 AND resource_id = $2
removeResource_BothSides(t, r) ==
    [rel \in Relation |-> IF rel.Parent = r \/ rel.Child = r THEN 0 ELSE t[rel]]

removeResource(t, r) ==
    [rel \in Relation |-> IF rel.Parent = r THEN 0 ELSE t[rel]]

RemoveResource(r) ==
    /\ relations' = removeResource(relations, r)
    /\ call' = StoreCall("RemoveResource", r, ErrNil)
    /\ UNCHANGED <<queue, pipeline, host>>

RelationsOf(p, relatedResources) ==
    [i \in 1..Len(relatedResources) |-> [Parent |-> p, Child |-> relatedResources[i]]]

\* What SetRelations leaves in the table and returns: tx.Rollback is deferred,
\* so only the path that reaches tx.Commit keeps what the transaction wrote.
SetRelationsTx_KeepOld(t, p, relatedResources) ==
    addRelationsBatch(t, RelationsOf(p, relatedResources))

SetRelationsTx(t, p, relatedResources) ==
    LET removed == removeResource(t, p)
        added == addRelationsBatch(removed, RelationsOf(p, relatedResources))
    IN  IF Len(relatedResources) = 0 THEN [table |-> t, err |-> ErrNil]
        ELSE IF added.err # ErrNil THEN [table |-> t, err |-> added.err]
        ELSE added

SetRelations(p, relatedResources) ==
    LET r == SetRelationsTx(relations, p, relatedResources)
    IN  /\ relations' = r.table
        /\ call' = StoreCall("SetRelations", <<p, relatedResources>>, r.err)
        /\ UNCHANGED <<queue, pipeline, host>>

GetParentResources(t, c) == {rel.Parent : rel \in {r \in Relation : r.Child = c /\ t[r] > 0}}
GetChildResources(t, p) == {rel.Child : rel \in {r \in Relation : r.Parent = p /\ t[r] > 0}}


\* ------------------------------------------------------ the resource schema
\* The resource.Configs that App holds: a and b declare each other, so both
\* relations are Bidirectional; no resource c is declared.  A relation lists
\* the fields of the related resource that the parent's document inlines.
FieldNames == {"field1", "field2"}
NoConfig == "nil"
NoRelationConfig == [Resource |-> "nil"]
ConfigFields(t) == FieldNames
ConfigRelations(t) == IF t = "a" THEN {"b"} ELSE IF t = "b" THEN {"a"} ELSE {}
RelationConfigFields(t, to) == {"field1"}

resolveResourceConfig(t) == IF t \in {"a", "b"} THEN t ELSE NoConfig

\* Config.GetRelation, with the Bidirectional flag that verifyFieldRelations sets.
GetRelation(t, to) ==
    IF to \in ConfigRelations(t)
    THEN [Resource |-> to, Fields |-> RelationConfigFields(t, to),
          Bidirectional |-> t \in ConfigRelations(to)]
    ELSE NoRelationConfig

\* verifyResourceConfig: the error it returns.
verifyResourceConfig(r) ==
    IF r[1] = "" THEN "resource required"
    ELSE IF r[2] = "" THEN "resource_id required"
    ELSE IF resolveResourceConfig(r[1]) = NoConfig THEN "unknown resource"
    ELSE ErrNil

\* ---------------------------------------------------- the search documents
\* A field map: the names it holds, each with its value.
NoData == [n \in {} |-> "x"]

\* buildResourceData, buildResourceDataFromMap: the fields the schema names.
buildResourceData(rawData, fields) ==
    [n \in DOMAIN rawData \cap fields |-> rawData[n]]

\* One document per resource, under <type>_search and its id: its "fields" and,
\* per inlined child, the element of the child type's array with that id.
NoDoc == [missing |-> TRUE]
NewDoc(fields, children) == [fields |-> fields, children |-> children]
NoDocs == [r \in Resources |-> NoDoc]

EsResult(d, err) == [docs |-> d, err |-> err]

\* Client.Upsert: the document is replaced whole.
Upsert(d, r, doc) == EsResult([d EXCEPT ![r] = doc], ErrNil)

\* Client.Delete: a 404 is no error.
Delete(d, r) == EsResult([d EXCEPT ![r] = NoDoc], ErrNil)

\* Client.Get: nil on a 404.
Get(d, r) == d[r]

\* Client.UpdateField of "fields": a partial update merges the given object
\* into the stored one; a missing document is an error.
UpdateField(d, r, value) ==
    IF d[r] = NoDoc THEN EsResult(d, "transient")
    ELSE EsResult([d EXCEPT ![r].fields = value @@ @], ErrNil)

\* Client.UpsertFieldResourceById: replaces the element with that id, or appends it.
UpsertFieldResourceById(d, r, c, newElement) ==
    IF d[r] = NoDoc THEN EsResult(d, "transient")
    ELSE EsResult([d EXCEPT ![r].children =
                      [x \in DOMAIN @ \cup {c} |-> IF x = c THEN newElement ELSE @[x]]],
                  ErrNil)

\* Client.RemoveFieldResourceById: removes the element with that id.
RemoveFieldResourceById(d, r, c) ==
    IF d[r] = NoDoc THEN EsResult(d, "transient")
    ELSE EsResult([d EXCEPT ![r].children = [x \in DOMAIN @ \ {c} |-> @[x]]], ErrNil)


\* ------------------------------------------------- the indexing pipeline
\* The group of a resource's jobs: fmt.Sprintf("%s|%s", Type, Id).
GroupKey(r) == r[1] \o "|" \o r[2]

NoHandlerCall == [job |-> 0, attempts |-> 0, err |-> ErrNil]
PipelineInit ==
    /\ docs = NoDocs
    /\ payloads = << >>
    /\ running = [l \in DOMAIN workerID |-> NoHandlerCall]
    /\ published = << >>

AppInit == StoreInit /\ PipelineInit

\* What a Register call or a handler reads and writes: the relations table,
\* the documents, and the tables of the queue.
AppState ==
    [relations |-> relations, docs |-> docs, groups |-> groups, jobs |-> jobs,
     nextSeq |-> nextSeq, payloads |-> payloads]

Outcome(S, err) == [state |-> S, err |-> err]

\* Queue.Enqueue with opts = nil, both of its statements.
EnqueueNil(S, g, jobType, p) ==
    [S EXCEPT
        !.groups = IF g \in DOMAIN @ THEN @ ELSE @ @@ (g :> NewGroupRow),
        !.jobs = @ @@ (S.nextSeq :> NewJobRow(g, now, DefaultMaxAttempts)),
        !.nextSeq = @ + 1,
        !.payloads = @ @@ (S.nextSeq :> [type |-> jobType, payload |-> p])]

\* A set in the order in which a loop over it runs.
RECURSIVE SeqOf(_)
SeqOf(X) ==
    IF X = {} THEN << >>
    ELSE LET x == CHOOSE y \in X : TRUE IN <<x>> \o SeqOf(X \ {x})

\* The calls of the store that the handlers and Register calls make with the
\* includeRemoved flag, and those that mark and settle a removal.
RelationExists(t, rel) == t[rel] > 0
MarkRemoveRelation(t, rel) == removeRelationsBatch(t, <<rel>>)
PersistRemoveRelation(t, rel) == removeRelationsBatch(t, <<rel>>)


\* ---------------------------------------------------------- the handlers
\* buildDocument: the element it inlines for child c, by the parent's relation.
InlinedElement(d, rel, c) ==
    IF Get(d, c) = NoDoc THEN NoData
    ELSE buildResourceData(Get(d, c).fields, rel.Fields)

\* buildDocument: children of a type the resource has no relation to are left out.
buildDocument(d, t, fields, children) ==
    LET inlined == {c \in children : GetRelation(t, c[1]) # NoRelationConfig}
    IN  NewDoc(fields, [c \in inlined |-> InlinedElement(d, GetRelation(t, c[1]), c)])

\* handleCreate, its loop over p.ParentResources.
RECURSIVE EnqueueFanOut(_, _, _)
EnqueueFanOut(S, parents, r) ==
    IF parents = << >> THEN S
    ELSE EnqueueFanOut(
             EnqueueNil(S, GroupKey(Head(parents)), "add_relation",
                        [Relation |-> [Parent |-> Head(parents), Child |-> r]]),
             Tail(parents), r)

\* A handleCreate that inlines the children named in the event, of which the
\* payload holds none, not those of the store.
handleCreate_PayloadChildren(S, p) ==
    LET r == p.Resource
        docMap == buildDocument(S.docs, r[1], p.Data, {})
        up == Upsert(S.docs, r, docMap)
    IN  IF verifyResourceConfig(r) # ErrNil THEN Outcome(S, "transient")
        ELSE Outcome(EnqueueFanOut([S EXCEPT !.docs = up.docs], p.ParentResources, r),
                     ErrNil)

handleCreate(S, p) ==
    LET r == p.Resource
        children == GetChildResources(S.relations, r)
        docMap == buildDocument(S.docs, r[1], p.Data, children)
        up == Upsert(S.docs, r, docMap)
    IN  IF verifyResourceConfig(r) # ErrNil THEN Outcome(S, "transient")
        ELSE Outcome(EnqueueFanOut([S EXCEPT !.docs = up.docs], p.ParentResources, r),
                     ErrNil)

\* handleUpdate, its loop over the parents: the first error ends it.
RECURSIVE UpsertIntoParents(_, _, _, _)
UpsertIntoParents(d, parents, r, data) ==
    IF parents = << >> THEN EsResult(d, ErrNil)
    ELSE LET parent == Head(parents)
             rf == IF resolveResourceConfig(parent[1]) = NoConfig THEN NoRelationConfig
                   ELSE GetRelation(parent[1], r[1])
             up == UpsertFieldResourceById(d, parent, r, buildResourceData(data, rf.Fields))
         IN  IF rf = NoRelationConfig THEN UpsertIntoParents(d, Tail(parents), r, data)
             ELSE IF up.err # ErrNil THEN up
             ELSE UpsertIntoParents(up.docs, Tail(parents), r, data)

handleUpdate(S, p) ==
    LET r == p.Resource
        own == UpdateField(S.docs, r, buildResourceData(p.Data, ConfigFields(r[1])))
        parents == SeqOf(GetParentResources(S.relations, r))
        ups == UpsertIntoParents(own.docs, parents, r, p.Data)
    IN  IF verifyResourceConfig(r) # ErrNil THEN Outcome(S, "transient")
        ELSE IF own.err # ErrNil THEN Outcome(S, own.err)
        ELSE Outcome([S EXCEPT !.docs = ups.docs], ups.err)

\* handleDelete, its loop over the parents: the first error ends it.
RECURSIVE RemoveFromParents(_, _, _)
RemoveFromParents(d, parents, r) ==
    IF parents = << >> THEN EsResult(d, ErrNil)
    ELSE LET rm == RemoveFieldResourceById(d, Head(parents), r)
         IN  IF rm.err # ErrNil THEN rm
             ELSE RemoveFromParents(rm.docs, Tail(parents), r)

handleDelete(S, p) ==
    LET r == p.Resource
        del == Delete(S.docs, r)
        parents == SeqOf(GetParentResources(S.relations, r))
        rms == RemoveFromParents(del.docs, parents, r)
    IN  IF verifyResourceConfig(r) # ErrNil THEN Outcome(S, "transient")
        ELSE IF rms.err # ErrNil THEN Outcome([S EXCEPT !.docs = rms.docs], rms.err)
        ELSE Outcome([S EXCEPT !.docs = rms.docs,
                               !.relations = removeResource(@, r)], ErrNil)

\* handleAddRelation.  doc["fields"].(map[string]any) panics when the child has
\* no document, .Fields when the child's type has no config.
handleAddRelation(S, p) ==
    LET parent == p.Relation.Parent
        child == p.Relation.Child
        doc == buildResourceData(Get(S.docs, child).fields, ConfigFields(child[1]))
        up == UpsertFieldResourceById(S.docs, parent, child, doc)
    IN  IF verifyResourceConfig(parent) # ErrNil THEN Outcome(S, "transient")
        ELSE IF ~RelationExists(S.relations, p.Relation) THEN Outcome(S, ErrNil)
        ELSE IF Get(S.docs, child) = NoDoc \/ resolveResourceConfig(child[1]) = NoConfig
             THEN Outcome(S, "panic")
        ELSE Outcome([S EXCEPT !.docs = up.docs], up.err)

handleRemoveRelation(S, p) ==
    LET parent == p.Relation.Parent
        child == p.Relation.Child
        rm == RemoveFieldResourceById(S.docs, parent, child)
    IN  IF verifyResourceConfig(parent) # ErrNil THEN Outcome(S, "transient")
        ELSE IF RelationExists(S.relations, p.Relation) THEN Outcome(S, ErrNil)
        ELSE IF rm.err # ErrNil THEN Outcome(S, rm.err)
        ELSE Outcome([S EXCEPT !.docs = rm.docs,
                               !.relations = PersistRemoveRelation(@, p.Relation)], ErrNil)

\* App.HandlerFunc: the handler of the job's type.
HandlerFunc(S, job) ==
    CASE job.type = "create" -> handleCreate(S, job.payload)
      [] job.type = "update" -> handleUpdate(S, job.payload)
      [] job.type = "delete" -> handleDelete(S, job.payload)
      [] job.type = "add_relation" -> handleAddRelation(S, job.payload)
      [] job.type = "remove_relation" -> handleRemoveRelation(S, job.payload)
      [] OTHER -> Outcome(S, "transient")

\* The state a Register call or a handler leaves.
Becomes(S) ==
    /\ relations' = S.relations
    /\ docs' = S.docs
    /\ groups' = S.groups
    /\ jobs' = S.jobs
    /\ nextSeq' = S.nextSeq
    /\ payloads' = S.payloads

\* Whether loop l has called the handler for the attempt it is running.
Called(l) ==
    /\ running[l].job = loops[l].job
    /\ running[l].attempts = loops[l].attempts

\* runOne: h(ctx, job).  The backends fail with the errors in handler before
\* the handler's first call of them, or let it run.
Handle(l) ==
    /\ loops[l].pc = "running"
    /\ ~Called(l)
    /\ \E fail \in handler :
          LET out == IF fail # ErrNil THEN Outcome(AppState, fail)
                     ELSE HandlerFunc(AppState, payloads[loops[l].job])
          IN  /\ Becomes(out.state)
              /\ running' = [running EXCEPT ![l] =
                                [job |-> loops[l].job, attempts |-> loops[l].attempts,
                                 err |-> out.err]]
    /\ UNCHANGED <<now, loops, workerID, handler, enq, cleaner, stopFetch, ctxDone,
                   call, published, host>>

\* The handler returns its error to runOne.
HandleReturn(l) ==
    /\ Called(l)
    /\ running[l].err # "panic"
    /\ HandlerReturn(l, running[l].err)

\* The handler panics: nothing recovers, the process of the Worker ends.
HandlePanic(l) ==
    /\ loops[l].pc = "running"
    /\ Called(l)
    /\ running[l].err = "panic"
    /\ Crash(Me(l))


\* ------------------------------------------------------ the Register calls
\* A published event: the payload of a Register call.
Event(op, r, data, rels) == [op |-> op, Resource |-> r, Data |-> data, Relations |-> rels]

Converted(relationList, parents, err) ==
    [relations |-> relationList, parentResources |-> parents, err |-> err]

\* convertCreateRelationParameters: the relations to store and, for the
\* bidirectional ones, the related resources to fan out to.
RECURSIVE convertCreateRelationParameters(_, _)
convertCreateRelationParameters(r, rels) ==
    IF rels = << >> THEN Converted(<< >>, << >>, ErrNil)
    ELSE LET rel == Head(rels)
             rCfgRel == GetRelation(r[1], rel[1])
             rest == convertCreateRelationParameters(r, Tail(rels))
             down == [Parent |-> r, Child |-> rel]
             up == [Parent |-> rel, Child |-> r]
         IN  IF rCfgRel = NoRelationConfig THEN Converted(<< >>, << >>, "invalid_argument")
             ELSE IF rest.err # ErrNil THEN rest
             ELSE IF rCfgRel.Bidirectional
                  THEN Converted(<<down, up>> \o rest.relations,
                                 <<rel>> \o rest.parentResources, ErrNil)
             ELSE Converted(<<down>> \o rest.relations, rest.parentResources, ErrNil)

RegisterCreate(S, e) ==
    LET r == e.Resource
        conv == convertCreateRelationParameters(r, e.Relations)
        added == addRelationsBatch(S.relations, conv.relations)
    IN  IF verifyResourceConfig(r) # ErrNil THEN Outcome(S, verifyResourceConfig(r))
        ELSE IF conv.err # ErrNil THEN Outcome(S, conv.err)
        ELSE IF added.err # ErrNil THEN Outcome(S, added.err)
        ELSE Outcome(EnqueueNil([S EXCEPT !.relations = added.table],
                                GroupKey(r), "create",
                                [Resource |-> r,
                                 Data |-> buildResourceData(e.Data, ConfigFields(r[1])),
                                 ParentResources |-> conv.parentResources]),
                     ErrNil)

RegisterUpdate(S, e) ==
    IF verifyResourceConfig(e.Resource) # ErrNil
    THEN Outcome(S, verifyResourceConfig(e.Resource))
    ELSE Outcome(EnqueueNil(S, GroupKey(e.Resource), "update",
                            [Resource |-> e.Resource, Data |-> e.Data]), ErrNil)

RegisterDelete(S, e) ==
    IF verifyResourceConfig(e.Resource) # ErrNil
    THEN Outcome(S, verifyResourceConfig(e.Resource))
    ELSE Outcome(EnqueueNil(S, GroupKey(e.Resource), "delete",
                            [Resource |-> e.Resource]), ErrNil)

\* persistAddRelation: AddRelations of the one relation, then Enqueue.
persistAddRelation(S, rel) ==
    LET added == addRelationsBatch(S.relations, <<rel>>)
    IN  IF added.err # ErrNil THEN Outcome(S, added.err)
        ELSE Outcome(EnqueueNil([S EXCEPT !.relations = added.table],
                                GroupKey(rel.Parent), "add_relation", [Relation |-> rel]),
                     ErrNil)

\* persistRemoveRelation: MarkRemoveRelation, then Enqueue.
persistRemoveRelation(S, rel) ==
    Outcome(EnqueueNil([S EXCEPT !.relations = MarkRemoveRelation(@, rel)],
                       GroupKey(rel.Parent), "remove_relation", [Relation |-> rel]),
            ErrNil)

\* A loop that persists one relation after the other, up to the first error.
RECURSIVE PersistEach(_, _, _)
PersistEach(S, rels, adding) ==
    IF rels = << >> THEN Outcome(S, ErrNil)
    ELSE LET one == IF adding THEN persistAddRelation(S, Head(rels))
                    ELSE persistRemoveRelation(S, Head(rels))
         IN  IF one.err # ErrNil THEN one
             ELSE PersistEach(one.state, Tail(rels), adding)

\* RegisterAddRelation and RegisterRemoveRelation: the relation and, when it is
\* bidirectional, its reverse.  No relation of the schema has UpdateResources.
BothWays(r, c, relCfg) ==
    IF relCfg.Bidirectional
    THEN <<[Parent |-> r, Child |-> c], [Parent |-> c, Child |-> r]>>
    ELSE <<[Parent |-> r, Child |-> c]>>

RegisterAddRelation(S, e) ==
    LET r == e.Resource
        c == e.Relations[1]
        relCfg == GetRelation(r[1], c[1])
    IN  IF verifyResourceConfig(r) # ErrNil THEN Outcome(S, verifyResourceConfig(r))
        ELSE IF relCfg = NoRelationConfig THEN Outcome(S, "invalid_argument")
        ELSE PersistEach(S, BothWays(r, c, relCfg), TRUE)

RegisterRemoveRelation(S, e) ==
    LET r == e.Resource
        c == e.Relations[1]
        relCfg == GetRelation(r[1], c[1])
    IN  IF verifyResourceConfig(r) # ErrNil THEN Outcome(S, verifyResourceConfig(r))
        ELSE IF relCfg = NoRelationConfig THEN Outcome(S, "invalid_argument")
        ELSE PersistEach(S, BothWays(r, c, relCfg), FALSE)

\* removeChildRelations and removeParentRelations.
removeChildRelations(S, r) ==
    PersistEach(S, [i \in 1..Len(SeqOf(GetChildResources(S.relations, r))) |->
                       [Parent |-> r, Child |-> SeqOf(GetChildResources(S.relations, r))[i]]],
                FALSE)

removeParentRelations(S, r) ==
    PersistEach(S, [i \in 1..Len(SeqOf(GetParentResources(S.relations, r))) |->
                       [Parent |-> SeqOf(GetParentResources(S.relations, r))[i], Child |-> r]],
                FALSE)

RegisterSetRelations(S, e) ==
    LET r == e.Resource
        noChildren == removeChildRelations(S, r)
        noParents == removeParentRelations(noChildren.state, r)
        conv == convertCreateRelationParameters(r, e.Relations)
    IN  IF verifyResourceConfig(r) # ErrNil THEN Outcome(S, verifyResourceConfig(r))
        ELSE IF noChildren.err # ErrNil THEN noChildren
        ELSE IF noParents.err # ErrNil THEN noParents
        ELSE IF conv.err # ErrNil THEN Outcome(noParents.state, conv.err)
        ELSE PersistEach(noParents.state, conv.relations, TRUE)

RegisterCall(S, e) ==
    CASE e.op = "create" -> RegisterCreate(S, e)
      [] e.op = "update" -> RegisterUpdate(S, e)
      [] e.op = "delete" -> RegisterDelete(S, e)
      [] e.op = "add_relation" -> RegisterAddRelation(S, e)
      [] e.op = "remove_relation" -> RegisterRemoveRelation(S, e)
      [] e.op = "set_relations" -> RegisterSetRelations(S, e)

Returned(e, err) == [event |-> e, err |-> err]
Ok(e) == Returned(e, ErrNil)

\* A caller publishes event e: the Register call, whole.
Register(e) ==
    /\ Len(published) < MaxEvents
    /\ nextSeq <= MaxAppJobs
    /\ LET out == RegisterCall(AppState, e)
       IN  /\ Becomes(out.state)
           /\ call' = StoreCall(e.op, e, out.err)
           /\ published' = Append(published, Returned(e, out.err))
    /\ UNCHANGED <<now, loops, workerID, handler, enq, cleaner, stopFetch, ctxDone, running, host>>

\* ------------------------------------------------------ the Index service
\* A nil entry of req.Events, and an event whose payload is of no known type.
NilEvent == [op |-> "nil"]
UnknownEvent == [op |-> "unknown"]

\* applyOne: the switch on the payload's type.
applyOne(S, ev) ==
    IF ev.op \in {"create", "update", "delete", "add_relation", "remove_relation",
                  "set_relations"}
    THEN RegisterCall(S, ev)
    ELSE Outcome(S, "unknown payload")

BatchResult(S, log, err) == [state |-> S, log |-> log, err |-> err]

\* A PublishBatch that goes on with the next event after a failure and
\* returns the last error.
RECURSIVE ApplyEach_KeepGoing(_, _, _)
ApplyEach_KeepGoing(S, log, evs) ==
    IF evs = << >> THEN BatchResult(S, log, ErrNil)
    ELSE IF Head(evs) = NilEvent THEN ApplyEach_KeepGoing(S, log, Tail(evs))
    ELSE LET out == applyOne(S, Head(evs))
             rest == ApplyEach_KeepGoing(out.state, Append(log, Returned(Head(evs), out.err)),
                                         Tail(evs))
         IN  IF rest.err = ErrNil THEN BatchResult(rest.state, rest.log, out.err)
             ELSE rest

\* PublishBatch: for _, ev := range req.Events, skipping nil entries, up to the
\* first error of applyOne.  log is the list of the applyOne calls made.
RECURSIVE ApplyEach(_, _, _)
ApplyEach(S, log, evs) ==
    IF evs = << >> THEN BatchResult(S, log, ErrNil)
    ELSE IF Head(evs) = NilEvent THEN ApplyEach(S, log, Tail(evs))
    ELSE LET out == applyOne(S, Head(evs))
         IN  IF out.err # ErrNil
             THEN BatchResult(out.state, Append(log, Returned(Head(evs), out.err)), out.err)
             ELSE ApplyEach(out.state, Append(log, Ok(Head(evs))), Tail(evs))

PublishBatch(evs) ==
    /\ Len(published) + Len(evs) <= MaxEvents
    /\ nextSeq <= MaxAppJobs
    /\ LET out == ApplyEach(AppState, published, evs)
       IN  /\ Becomes(out.state)
           /\ call' = StoreCall("PublishBatch", evs, out.err)
           /\ published' = out.log
    /\ UNCHANGED <<now, loops, workerID, handler, enq, cleaner, stopFetch, ctxDone, running, host>>


\* ------------------------------------------------------ schema validation
\* resource.Configs as loadResourceConfig returns them: a list of Config
\* {Resource, Fields, Relations}, each relation a RelationConfig {Resource,
\* Fields, Dependance} with its calculated Bidirectional and UpdateResources.
\* Fields are lists of field names.
RelationConfig(to, fields, dep) ==
    [Resource |-> to, Fields |-> fields, Dependance |-> dep,
     Bidirectional |-> FALSE, UpdateResources |-> << >>]
Config(name, fields, rels) == [Resource |-> name, Fields |-> fields, Relations |-> rels]

\* The first index of seq whose entry satisfies Test, 0 when there is none
\* (slices.IndexFunc, and the loop of Configs.Get).
IndexFunc(seq, Test(_)) ==
    IF \E i \in 1..Len(seq) : Test(seq[i])
    THEN CHOOSE i \in 1..Len(seq) : Test(seq[i]) /\ \A j \in 1..(i - 1) : ~Test(seq[j])
    ELSE 0

\* Configs.Get: the first config of that name, as an index into c.
ConfigsGet(c, resourceName) == IndexFunc(c, LAMBDA rc : rc.Resource = resourceName)

\* FieldConfig.Validate over a list of fields.
FieldsValidate(fields) ==
    IF \E i \in 1..Len(fields) : fields[i] = "" THEN "name required" ELSE ErrNil

RelationConfigValidate(r) ==
    IF r.Resource = "" THEN "resource required"
    ELSE IF Len(r.Fields) = 0 THEN "at least one field required"
    ELSE FieldsValidate(r.Fields)

ConfigValidate(rc) ==
    IF rc.Resource = "" THEN "resource required"
    ELSE IF FieldsValidate(rc.Fields) # ErrNil THEN FieldsValidate(rc.Fields)
    ELSE IF \E i \in 1..Len(rc.Relations) : RelationConfigValidate(rc.Relations[i]) # ErrNil
    THEN LET i == IndexFunc(rc.Relations, LAMBDA r : RelationConfigValidate(r) # ErrNil)
         IN  RelationConfigValidate(rc.Relations[i])
    ELSE ErrNil

Verified(c, err) == [configs |-> c, err |-> err]

\* A lookup that takes the related resource's first relation, whatever its target.
BackRelation_First(relRCfg, resource) == IF Len(relRCfg.Relations) > 0 THEN 1 ELSE 0

\* for j, relR := range relRCfg.Relations { if relR.Resource == rCfg.Resource:
\* the related resource's first relation back to resource, 0 when it has none.
BackRelation(relRCfg, resource) ==
    IndexFunc(relRCfg.Relations, LAMBDA r : r.Resource = resource)

\* The body of verifyFieldRelations' inner loop, for relation i of config k:
\* the configs as it leaves them and the error it returns.
verifyRelation(c, k, i) ==
    LET rCfg == c[k]
        currentRel == rCfg.Relations[i]
        rel == ConfigsGet(c, currentRel.Resource)
        dep == ConfigsGet(c, currentRel.Dependance)
        depResIdx == IndexFunc(c[dep].Relations, LAMBDA r : r.Resource = currentRel.Resource)
        depRelidx == IndexFunc(rCfg.Relations, LAMBDA r : r.Resource = currentRel.Dependance)
        c1 == [c EXCEPT ![dep].Relations[depResIdx].UpdateResources = Append(@, rCfg.Resource)]
        c2 == [c1 EXCEPT ![k].Relations[depRelidx].UpdateResources = Append(@, rCfg.Resource)]
        c3 == IF currentRel.Dependance = "" THEN c ELSE c2
        j == BackRelation(c3[rel], rCfg.Resource)
    IN  IF rel = 0 THEN Verified(c, "resource does not exist")
        ELSE IF \E f \in 1..Len(currentRel.Fields) :
                    \A g \in 1..Len(c[rel].Fields) : c[rel].Fields[g] # currentRel.Fields[f]
        THEN Verified(c, "field does not exist")
        ELSE IF currentRel.Dependance # "" /\ dep = 0
        THEN Verified(c, "dependance does not exist")
        ELSE IF currentRel.Dependance # "" /\ depResIdx = 0
        THEN Verified(c, "dependance has no relation to the resource")
        ELSE IF currentRel.Dependance # "" /\ depRelidx = 0
        THEN Verified(c1, "dependance is not a relation")
        ELSE IF j = 0 THEN Verified(c3, ErrNil)
        ELSE Verified([c3 EXCEPT ![k].Relations[i].Bidirectional = TRUE,
                                 ![rel].Relations[j].Bidirectional = TRUE], ErrNil)

\* verifyFieldRelations from relation i of config k on: for each config, for
\* each of its relations, until the first error.
RECURSIVE verifyFrom(_, _, _)
verifyFrom(c, k, i) ==
    IF k > Len(c) THEN Verified(c, ErrNil)
    ELSE IF i > Len(c[k].Relations) THEN verifyFrom(c, k + 1, 1)
    ELSE LET out == verifyRelation(c, k, i)
         IN  IF out.err # ErrNil THEN out ELSE verifyFrom(out.configs, k, i + 1)

verifyFieldRelations(c) == verifyFrom(c, 1, 1)

\* Configs.Validate: the configs as it leaves them and the error it returns.
ConfigsValidate(c) ==
    IF Len(c) = 0 THEN Verified(c, "at least one resource config required")
    ELSE IF \E i \in 1..Len(c) : ConfigValidate(c[i]) # ErrNil
    THEN Verified(c, ConfigValidate(c[IndexFunc(c, LAMBDA rc : ConfigValidate(rc) # ErrNil)]))
    ELSE verifyFieldRelations(c)

\* main, before it loads the resource configuration.
SchemaInit == schema = [pc |-> "start", configs |-> << >>, err |-> ErrNil]

\* No two configs of c have the same name.
UniqueNames(c) == \A k, m \in 1..Len(c) : c[k].Resource = c[m].Resource => k = m

\* main: resources, err := loadResourceConfig(path).  The file is a map from
\* resource name to config: the names are the map's keys, so no two configs
\* share one, and the configs come in the order of a range over the map.
loadResourceConfig(c) ==
    /\ schema.pc = "start"
    /\ UniqueNames(c)
    /\ schema' = [pc |-> "loaded", configs |-> c, err |-> ErrNil]
    /\ UNCHANGED <<queue, relations, call, pipeline, shutdown, leader, units>>

\* main: resources.Validate(), and log.Fatalf when it fails.
Validate ==
    /\ schema.pc = "loaded"
    /\ LET out == ConfigsValidate(schema.configs)
       IN  schema' = [pc |-> IF out.err = ErrNil THEN "valid" ELSE "invalid",
                      configs |-> out.configs, err |-> out.err]
    /\ UNCHANGED <<queue, relations, call, pipeline, shutdown, leader, units>>

\* ------------------------------------------------------------ Start and Stop
\* Start has run: loopsWG holds the worker loops, reaperLoop and cleanerLoop;
\* nobody has called Stop.
ShutdownInit ==
    /\ stop = [w \in WorkerIDs |-> [expired |-> FALSE, forced |-> FALSE, ret |-> "none"]]
    /\ maint = [w \in WorkerIDs |-> [reaperLoop |-> "running", cleanerLoop |-> "running"]]

\* reaperLoop: if ctx.Err() != nil { return }
reaperLoopReturn(w) ==
    /\ maint[w].reaperLoop = "running"
    /\ ctxDone[w]
    /\ maint' = [maint EXCEPT ![w].reaperLoop = "returned"]
    /\ UNCHANGED <<queue, relations, call, pipeline, schema, stop, leader, units>>

\* reaperLoop: w.q.ReapExpiredRunning(ctx)
reaperLoop(w) ==
    /\ maint[w].reaperLoop = "running"
    /\ ~ctxDone[w]
    /\ ReapExpiredRunning

\* cleanerLoop: if ctx.Err() != nil { return }
cleanerLoopReturn(w) ==
    /\ maint[w].cleanerLoop = "running"
    /\ ctxDone[w]
    /\ maint' = [maint EXCEPT ![w].cleanerLoop = "returned"]
    /\ UNCHANGED <<queue, relations, call, pipeline, schema, stop, leader, units>>

\* loopsWG.Wait() returns: every goroutine that Start added has returned.
LoopsDone(w) ==
    /\ \A l \in DOMAIN workerID : Me(l) = w => loops[l].pc = "exit"
    /\ maint[w].reaperLoop = "returned"
    /\ maint[w].cleanerLoop = "returned"

\* Stop is waiting in one of its two selects.
StopWaits(w) == stopFetch[w] /\ stop[w].ret = "none"

\* Stop, case <-done of either select: return nil
StopReturnsNil(w) ==
    /\ StopWaits(w)
    /\ LoopsDone(w)
    /\ stop' = [stop EXCEPT ![w].ret = "nil"]
    /\ UNCHANGED <<queue, relations, call, pipeline, schema, maint, leader, units>>

\* Stop, case <-stopCtx.Done(): every in-flight job's scope is cancelled.
StopCtxDone(w) ==
    /\ StopWaits(w)
    /\ ~stop[w].expired
    /\ stop' = [stop EXCEPT ![w].expired = TRUE,
                            ![w].forced = \E l \in DOMAIN workerID :
                                             Me(l) = w /\ loops[l].pc = "running"]
    /\ loops' = [l \in DOMAIN workerID |->
                    IF Me(l) = w /\ loops[l].pc = "running"
                    THEN [loops[l] EXCEPT !.cancelled = TRUE]
                    ELSE loops[l]]
    /\ UNCHANGED <<now, groups, jobs, nextSeq, workerID, handler, enq, cleaner, stopFetch,
                   ctxDone, relations, call, pipeline, schema, maint, leader, units>>

\* Stop, case <-time.After(2 * time.Second): return stopCtx.Err()
StopTimesOut(w) ==
    /\ StopWaits(w)
    /\ stop[w].expired
    /\ stop' = [stop EXCEPT ![w].ret = "deadline"]
    /\ UNCHANGED <<queue, relations, call, pipeline, schema, maint, leader, units>>

\* ------------------------------------------------------- the leader elector
\* The LeaderElectors that share one LockName, each in a process of its own,
\* and the tasks added to each with AddTask.
Electors == {"n1", "n2"}
Tasks == {"reaper", "cleanup"}
NoHolder == "none"

\* TaskErrorPolicy, and a value that is neither of the two.
TaskErrorDropLeadership == 0
TaskErrorLogAndContinue == 1
Policies == {TaskErrorDropLeadership, TaskErrorLogAndContinue, 2}

\* A LeaderElector before NewLeaderElector, and at the top of Run's loop: not
\* leader, no connection, no task and no goroutine of a term.
NoTerm ==
    [isLeader |-> FALSE, conn |-> "none", cancelled |-> FALSE,
     tasks |-> [t \in Tasks |-> "idle"], taskErrCh |-> << >>,
     monitor |-> "idle", monErrCh |-> "empty", reason |-> ErrNil]

NewElector ==
    [pc |-> "new", policy |-> TaskErrorDropLeadership, ctxDone |-> FALSE, terms |-> 0,
     starts |-> 0, startErr |-> ErrNil, stops |-> 0, term |-> NoTerm]

LeaderInit ==
    /\ elector = [e \in Electors |-> NewElector]
    /\ advisoryLock = NoHolder

\* NewLeaderElector: a TaskErrorPolicy that is neither value becomes the default.
NewLeaderElector(e, policy) ==
    /\ elector[e].pc = "new"
    /\ elector' = [elector EXCEPT
                      ![e].pc = "electing",
                      ![e].policy = IF policy \in {TaskErrorDropLeadership, TaskErrorLogAndContinue}
                                    THEN policy ELSE TaskErrorDropLeadership]
    /\ UNCHANGED <<queue, relations, call, pipeline, schema, shutdown, advisoryLock, units>>

\* IsLeader
IsLeader(e) == elector[e].term.isLeader

\* leadCtx is done: runAsLeader has called cancel(), or Run's ctx is cancelled.
LeadCtxDone(e) == elector[e].term.cancelled \/ elector[e].ctxDone

\* The ctx given to Run is cancelled.
CancelRun(e) ==
    /\ elector[e].pc \notin {"new", "returned"}
    /\ ~elector[e].ctxDone
    /\ elector' = [elector EXCEPT ![e].ctxDone = TRUE]
    /\ UNCHANGED <<queue, relations, call, pipeline, schema, shutdown, advisoryLock, units>>

\* Run, top of the loop: if ctx.Err() != nil { return ctx.Err() }
RunReturns(e) ==
    /\ elector[e].pc = "electing"
    /\ elector[e].ctxDone
    /\ elector' = [elector EXCEPT ![e].pc = "returned"]
    /\ UNCHANGED <<queue, relations, call, pipeline, schema, shutdown, advisoryLock, units>>

\* Run: tryAcquire returns a connection whose session holds the advisory lock
\* (pg_try_advisory_lock is true when no other session holds it), then
\* le.isLeader.Store(true).  A term begins.
tryAcquire(e) ==
    /\ elector[e].pc = "electing"
    /\ ~elector[e].ctxDone
    /\ elector[e].terms < MaxTerms
    /\ advisoryLock = NoHolder
    /\ advisoryLock' = e
    /\ elector' = [elector EXCEPT
                      ![e].pc = "startHook", ![e].terms = @ + 1,
                      ![e].starts = 0, ![e].startErr = ErrNil, ![e].stops = 0,
                      ![e].term = [NoTerm EXCEPT !.isLeader = TRUE, !.conn = "alive"]]
    /\ UNCHANGED <<queue, relations, call, pipeline, schema, shutdown, units>>

\* The session of e's connection ends at the server (the connection is lost,
\* the backend is terminated): its advisory lock is released with it.
ConnLost(e) ==
    /\ elector[e].term.conn = "alive"
    /\ elector' = [elector EXCEPT ![e].term.conn = "dead"]
    /\ advisoryLock' = IF advisoryLock = e THEN NoHolder ELSE advisoryLock
    /\ UNCHANGED <<queue, relations, call, pipeline, schema, shutdown, units>>

\* bestEffortUnlock: pg_advisory_unlock on the connection, an error when the
\* connection is dead.
bestEffortUnlock(e) ==
    IF elector[e].term.conn = "alive" /\ advisoryLock = e THEN NoHolder ELSE advisoryLock

\* Run: OnStartLeading(ctx, info).  On an error: bestEffortUnlock,
\* isLeader.Store(false), acquiredConn.Release(), and back to the election.
OnStartLeading(e, err) ==
    /\ elector[e].pc = "startHook"
    /\ IF err = ErrNil
       THEN /\ elector' = [elector EXCEPT ![e].pc = "startTasks", ![e].starts = @ + 1,
                                          ![e].startErr = err]
            /\ UNCHANGED advisoryLock
       ELSE /\ advisoryLock' = bestEffortUnlock(e)
            /\ elector' = [elector EXCEPT ![e].pc = "electing", ![e].starts = @ + 1,
                                          ![e].startErr = err, ![e].term = NoTerm]
    /\ UNCHANGED <<queue, relations, call, pipeline, schema, shutdown, units>>

\* runAsLeader: leadCtx, a goroutine for each task, one for monitorLeaderConn.
runAsLeader(e) ==
    /\ elector[e].pc = "startTasks"
    /\ elector' = [elector EXCEPT ![e].pc = "leading",
                                  ![e].term.tasks = [t \in Tasks |-> "running"],
                                  ![e].term.monitor = "running"]
    /\ UNCHANGED <<queue, relations, call, pipeline, schema, shutdown, advisoryLock, units>>

\* A task returns an error that is not context.Canceled: taskErrCh <- err
TaskFails(e, t) ==
    /\ elector[e].term.tasks[t] = "running"
    /\ elector' = [elector EXCEPT ![e].term.tasks[t] = "returned",
                                  ![e].term.taskErrCh = Append(@, t)]
    /\ UNCHANGED <<queue, relations, call, pipeline, schema, shutdown, advisoryLock, units>>

\* A task sees leadCtx done and returns ctx.Err().
TaskReturns(e, t) ==
    /\ elector[e].term.tasks[t] = "running"
    /\ LeadCtxDone(e)
    /\ elector' = [elector EXCEPT ![e].term.tasks[t] = "returned"]
    /\ UNCHANGED <<queue, relations, call, pipeline, schema, shutdown, advisoryLock, units>>

\* monitorLeaderConn: on a tick SELECT 1 fails on a dead connection; on
\* ctx.Done() it returns ctx.Err().  Its result goes to monErrCh.
monitorLeaderConn(e) ==
    /\ elector[e].term.monitor = "running"
    /\ \/ /\ elector[e].term.conn = "dead"
          /\ elector' = [elector EXCEPT ![e].term.monitor = "returned",
                                        ![e].term.monErrCh = "connection"]
       \/ /\ LeadCtxDone(e)
          /\ elector' = [elector EXCEPT ![e].term.monitor = "returned",
                                        ![e].term.monErrCh = "canceled"]
    /\ UNCHANGED <<queue, relations, call, pipeline, schema, shutdown, advisoryLock, units>>

\* runAsLeader has a reason to stop: it leaves the select loop and calls cancel().
Stops(e, reason) ==
    [elector EXCEPT ![e].pc = "stopping", ![e].term.reason = reason,
                    ![e].term.cancelled = TRUE]

\* A policy that drops leadership whatever the configuration says.
DropsLeadership_Always(e) == TRUE

\* if le.cfg.TaskErrorPolicy == TaskErrorLogAndContinue { continue }
DropsLeadership(e) == elector[e].policy # TaskErrorLogAndContinue

\* runAsLeader, the select loop: one case that is ready.
LeaderSelect(e) ==
    /\ elector[e].pc = "leading"
    /\ \/ /\ elector[e].ctxDone
          /\ elector' = Stops(e, "canceled")
       \/ /\ elector[e].term.monErrCh # "empty"
          /\ elector' = [Stops(e, elector[e].term.monErrCh) EXCEPT ![e].term.monErrCh = "empty"]
       \/ /\ elector[e].term.taskErrCh # << >>
          /\ elector' = IF DropsLeadership(e)
                        THEN [Stops(e, "task") EXCEPT ![e].term.taskErrCh = Tail(@)]
                        ELSE [elector EXCEPT ![e].term.taskErrCh = Tail(@)]
    /\ UNCHANGED <<queue, relations, call, pipeline, schema, shutdown, advisoryLock, units>>

\* A wait that does not wait for the tasks.
TasksReturned_NoWait(e) == TRUE

\* wg.Wait() returns: every task's goroutine is done.
TasksReturned(e) == \A t \in Tasks : elector[e].term.tasks[t] = "returned"

\* runAsLeader, after cancel(): wg.Wait(), bestEffortUnlock, return reason.
StopLeading(e) ==
    /\ elector[e].pc = "stopping"
    /\ TasksReturned(e)
    /\ advisoryLock' = bestEffortUnlock(e)
    /\ elector' = [elector EXCEPT ![e].pc = "led"]
    /\ UNCHANGED <<queue, relations, call, pipeline, schema, shutdown, units>>

\* Run, after runAsLeader: isLeader.Store(false), OnStopLeading,
\* acquiredConn.Release(), and return when ctx is done.
OnStopLeading(e) ==
    /\ elector[e].pc = "led"
    /\ elector' = [elector EXCEPT
                      ![e].pc = IF elector[e].ctxDone THEN "returned" ELSE "electing",
                      ![e].stops = @ + 1,
                      ![e].term = [NoTerm EXCEPT !.tasks = elector[e].term.tasks]]
    /\ UNCHANGED <<queue, relations, call, pipeline, schema, shutdown, advisoryLock, units>>

\* ------------------------------------------------------- the retry ladder
\* One job whose handler returns a plain error each time it runs, from the
\* Enqueue that chose its max_attempts on.
NoDelay == Zero

\* Enqueue with opts.MaxAttempts = m.
LadderInit(m) ==
    ladder = [max_attempts |-> m, attempts |-> 0, status |-> "queued", delay |-> NoDelay,
              by |-> "Enqueue"]

\* claimNextJobInGroup's UPDATE on the job.
LadderClaim ==
    /\ ladder.status = "queued"
    /\ ladder.attempts < MaxBudget
    /\ ladder' = [ladder EXCEPT !.status = "running", !.attempts = @ + 1, !.by = "claim"]
    /\ UNCHANGED <<queue, relations, call, pipeline, schema, shutdown, leader, errText, memory>>

\* finish with a plain error: dead when the attempts are spent, or queued
\* again after defaultBackoff(attempts).
LadderFinish ==
    /\ ladder.status = "running"
    /\ ladder' = IF FinishDisposition("transient", ladder.attempts, ladder.max_attempts) = "dead"
                 THEN [ladder EXCEPT !.status = "dead", !.by = "finish"]
                 ELSE [ladder EXCEPT !.status = "queued", !.by = "finish",
                                     !.delay = defaultBackoff(ladder.attempts)]
    /\ UNCHANGED <<queue, relations, call, pipeline, schema, shutdown, leader, errText, memory>>

\* ReapExpiredRunning on the job, its lease expired: queued again, run_after = now().
LadderReap ==
    /\ ladder.status = "running"
    /\ ladder' = [ladder EXCEPT !.status = "queued", !.by = "reaper", !.delay = NoDelay]
    /\ UNCHANGED <<queue, relations, call, pipeline, schema, shutdown, leader, errText, memory>>

LadderNext == LadderClaim \/ LadderFinish \/ LadderReap

\* --------------------------------------------------- the text of last_error
\* One job, enqueued with a large max_attempts, whose handler returns errors
\* with messages of the lengths MessageLens, and whose lease may expire.
MessageLens == {0, 1, TruncMax - 1, TruncMax, TruncMax + 1, 2 * TruncMax}

TextInit == errText = [status |-> "queued", last_error |-> << >>, reaps |-> 0]

\* claimNextJobInGroup's UPDATE: last_error stays.
TextClaim ==
    /\ errText.status = "queued"
    /\ errText' = [errText EXCEPT !.status = "running"]
    /\ UNCHANGED <<queue, relations, call, pipeline, schema, shutdown, leader, ladder, memory>>

\* finish with an error whose message has n characters: last_error = truncErr(runErr),
\* on the retry branch or on the dead branch.
TextFinish(n, dead) ==
    /\ errText.status = "running"
    /\ errText' = [errText EXCEPT !.status = IF dead THEN "dead" ELSE "queued",
                                  !.last_error = truncErr(Message(n))]
    /\ UNCHANGED <<queue, relations, call, pipeline, schema, shutdown, leader, ladder, memory>>

\* ReapExpiredRunning on the job, its lease expired:
\* last_error = COALESCE(last_error,'') || ' | requeued after lease expiry'.
TextReap ==
    /\ errText.status = "running"
    /\ errText.reaps < MaxReaps
    /\ errText' = [errText EXCEPT !.status = "queued",
                                  !.last_error = @ \o ReapNoteText,
                                  !.reaps = @ + 1]
    /\ UNCHANGED <<queue, relations, call, pipeline, schema, shutdown, leader, ladder, memory>>

TextNext ==
    \/ TextClaim
    \/ \E n \in MessageLens, dead \in BOOLEAN : TextFinish(n, dead)
    \/ TextReap

\* ------------------------------------------------------- the two stores
\* NewMemoryStore
MemoryInit == memory = << >>

\* s.relations[rl.Child] = append(s.relations[rl.Child], rl.Parent), for each
\* relation in order.
RECURSIVE MemoryAddRelations(_, _)
MemoryAddRelations(m, rels) ==
    IF rels = << >> THEN m
    ELSE LET c == Head(rels).Child
             old == IF c \in DOMAIN m THEN m[c] ELSE << >>
             next == [k \in DOMAIN m \cup {c} |->
                         IF k = c THEN Append(old, Head(rels).Parent) ELSE m[k]]
         IN  MemoryAddRelations(next, Tail(rels))

\* The parents of the child without relation.Parent; nothing without the key.
MemoryRemoveRelation(m, rel) ==
    IF rel.Child \notin DOMAIN m THEN m
    ELSE [m EXCEPT ![rel.Child] = SelectSeq(@, LAMBDA pr : pr # rel.Parent)]

\* delete(s.relations, resource)
MemoryRemoveResource(m, r) == [k \in DOMAIN m \ {r} |-> m[k]]

\* s.relations[childResource], or an empty list.
MemoryGetParentResources(m, c) == IF c \in DOMAIN m THEN m[c] ELSE << >>

\* The keys whose list holds parentResource, as a set (the order is that of
\* a map's iteration).
MemoryGetChildResources(m, p) ==
    {c \in DOMAIN m : \E i \in DOMAIN m[c] : m[c][i] = p}

\* The same call on a PostgresStore and on a MemoryStore.
BothAddRelations(rels) ==
    LET r == addRelationsBatch(relations, rels)
    IN  /\ memory' = MemoryAddRelations(memory, rels)
        /\ \A c \in DOMAIN memory' : Len(memory'[c]) <= MaxParents
        /\ relations' = r.table
        /\ call' = StoreCall("AddRelations", rels, r.err)
        /\ UNCHANGED <<queue, pipeline, schema, shutdown, leader, ladder, errText>>

BothRemoveRelation(rel) ==
    /\ memory' = MemoryRemoveRelation(memory, rel)
    /\ relations' = removeRelationsBatch(relations, <<rel>>)
    /\ call' = StoreCall("RemoveRelation", rel, ErrNil)
    /\ UNCHANGED <<queue, pipeline, schema, shutdown, leader, ladder, errText>>

BothRemoveResource(r) ==
    /\ memory' = MemoryRemoveResource(memory, r)
    /\ relations' = removeResource(relations, r)
    /\ call' = StoreCall("RemoveResource", r, ErrNil)
    /\ UNCHANGED <<queue, pipeline, schema, shutdown, leader, ladder, errText>>

BothNext ==
    \/ \E rels \in Batches : BothAddRelations(rels)
    \/ \E rel \in Relation : BothRemoveRelation(rel)
    \/ \E r \in Resources : BothRemoveResource(r)

UnitsInit == LadderInit(DefaultMaxAttempts) /\ TextInit /\ MemoryInit

HostInit == SchemaInit /\ ShutdownInit /\ LeaderInit

\* ---------------------------------------------------------- specification
InitProgram(ids, errs) ==
    /\ now = 0
    /\ groups = << >>
    /\ jobs = << >>
    /\ nextSeq = 1
    /\ workerID \in ids
    /\ handler = errs
    /\ loops = [l \in DOMAIN workerID |-> IdleLoop]
    /\ enq = NoCall
    /\ cleaner = [phase |-> "succeeded", batch |-> 0, sel |-> NoGroups]
    /\ stopFetch = [w \in WorkerIDs |-> FALSE]
    /\ ctxDone = [w \in WorkerIDs |-> FALSE]
    /\ AppInit
    /\ HostInit

InitQueue(ids, errs) == InitProgram(ids, errs) /\ UnitsInit

Enqueue(runAfters) ==
    \/ \E g \in Groups, opts \in EnqueueOpts(runAfters) : EnqueueGroup(g, opts)
    \/ EnqueueJob

WorkerNext ==
    \/ \E l \in DOMAIN workerID : claimGroup(l)
    \/ \E l \in DOMAIN workerID : claimNextJobInGroup(l)
    \/ \E l \in DOMAIN workerID : heartbeat(l)
    \/ \E l \in DOMAIN workerID, e \in handler : HandlerReturn(l, e)
    \/ \E l \in DOMAIN workerID : finish(l)
    \/ \E l \in DOMAIN workerID : BatchLimit(l)
    \/ \E l \in DOMAIN workerID : releaseGroup(l)
    \/ ReapExpiredRunning

\* Two worker loops, of one Worker or of two, whose handler succeeds or fails
\* with a plain error; callers enqueue without RunAfter.
Init ==
    InitQueue({f \in [Loops -> WorkerIDs] : f[1] = "w1"}, {"nil", "transient"})

Next ==
    \/ Enqueue({NULL})
    \/ WorkerNext
    \/ Tick

Spec == Init /\ [][Next]_vars

\* One worker loop whose handler may return every kind of error, and the
\* Worker's shutdown: Stop, its deadline, and the cancellation of Start's ctx.
ErrInit == InitQueue({[l \in {1} |-> "w1"]}, HandlerErrors)

ErrNext ==
    \/ Enqueue({NULL})
    \/ WorkerNext
    \/ Tick
    \/ \E l \in DOMAIN workerID : LoopExit(l)
    \/ \E l \in DOMAIN workerID : BatchStop(l)
    \/ Stop("w1")
    \/ StopDeadline("w1")
    \/ CancelCtx("w1")

ErrSpec == ErrInit /\ [][ErrNext]_vars

\* One worker loop, callers that enqueue with and without RunAfter, and the
\* cleaner.
CleanInit == InitQueue({[l \in {1} |-> "w1"]}, {"nil", "transient"})

CleanNext ==
    \/ Enqueue({NULL, now + 1})
    \/ WorkerNext
    \/ Tick
    \/ CleanupOnce

CleanSpec == CleanInit /\ [][CleanNext]_vars

\* A queue that holds MaxJobs jobs, enqueued without options just now; a
\* Worker w1 that may crash and a Worker w2 that stays alive.  The reaper loop
\* keeps running, time advances without end, and the loop of w2 keeps taking
\* its steps; of the group leases it takes, it does not let every one expire
\* before it asks for the group's next job.
LiveInit ==
    /\ now = MaxTime
    /\ groups = [g \in Groups |-> NewGroupRow]
    /\ jobs \in {[j \in 1..MaxJobs |-> NewJobRow(f[j], MaxTime, DefaultMaxAttempts)] :
                    f \in {h \in [1..MaxJobs -> Groups] : h[1] = "g1"}}
    /\ nextSeq = MaxJobs + 1
    /\ workerID = [l \in Loops |-> IF l = 1 THEN "w1" ELSE "w2"]
    /\ handler = {"nil"}
    /\ loops = [l \in DOMAIN workerID |-> IdleLoop]
    /\ enq = NoCall
    /\ cleaner = [phase |-> "succeeded", batch |-> 0, sel |-> NoGroups]
    /\ stopFetch = [w \in WorkerIDs |-> FALSE]
    /\ ctxDone = [w \in WorkerIDs |-> FALSE]
    /\ AppInit
    /\ HostInit
    /\ UnitsInit

LiveNext ==
    \/ WorkerNext
    \/ TickPastHorizon
    \/ Crash("w1")

\* claimNextJobInGroup returns a job.
ClaimsJob(l) == claimNextJobInGroup(l) /\ jobs' # jobs

AliveLoop(l) ==
    \/ claimGroup(l)
    \/ claimNextJobInGroup(l)
    \/ \E e \in handler : HandlerReturn(l, e)
    \/ finish(l)
    \/ BatchLimit(l)
    \/ releaseGroup(l)

LiveSpec ==
    /\ LiveInit
    /\ [][LiveNext]_vars
    /\ WF_vars(TickPastHorizon)
    /\ WF_vars(ReapExpiredRunning)
    /\ WF_vars(AliveLoop(2))
    /\ SF_vars(ClaimsJob(2))

\* The same queue and workers, where the loop of w2 keeps polling: of the
\* polls it makes while a group with a due job is free, not every one comes
\* after another loop has taken the group.
PollSpec ==
    /\ LiveSpec
    /\ SF_vars(claimGroup(2))

\* Callers of the PostgresStore alone: every call, with every list of at most
\* MaxBatch entries, against every content the table can have.
StoreSpecInit ==
    /\ InitQueue({[l \in {1} |-> "w1"]}, {"nil"})

StoreNext ==
    \/ \E rels \in Batches : AddRelations(rels)
    \/ \E rel \in Relation : RemoveRelation(rel)
    \/ \E p \in Resources : \E rr \in ChildLists(p) : SetRelations(p, rr)
    \/ \E r \in Resources : RemoveResource(r)

StoreSpec == StoreSpecInit /\ [][StoreNext]_vars


\* The pipeline: callers that publish up to MaxEvents events about a/1 and
\* b/1, among them events that fail validation, and one worker loop that runs
\* the handlers.  The backends never fail, or may fail any handler call.  All
\* of it happens within one second of the database clock.
D0 == [field1 |-> "x", field2 |-> "x"]
DX == [field1 |-> "x"]
DY == [field1 |-> "y"]
A1 == <<"a", "1">>
B1 == <<"b", "1">>
C1 == <<"c", "1">>

Events ==
    {Event("create", r, D0, rels) : r \in {A1, B1}, rels \in {<< >>}}
    \cup {Event("create", A1, D0, <<B1>>), Event("create", C1, D0, << >>),
          Event("create", A1, D0, <<C1>>)}
    \cup {Event("update", A1, d, << >>) : d \in {DX, DY}}
    \cup {Event("delete", B1, NoData, << >>)}
    \cup {Event("add_relation", A1, NoData, <<B1>>), Event("remove_relation", A1, NoData, <<B1>>),
          Event("set_relations", A1, NoData, <<C1>>)}

AppSpecInit ==
    \/ InitQueue({[l \in {1} |-> "w1"]}, {"nil"})
    \/ InitQueue({[l \in {1} |-> "w1"]}, {"nil", "transient"})

AppNext ==
    \/ \E e \in Events : Register(e)
    \/ \E l \in DOMAIN workerID : claimGroup(l)
    \/ \E l \in DOMAIN workerID : claimNextJobInGroup(l)
    \/ \E l \in DOMAIN workerID : Handle(l)
    \/ \E l \in DOMAIN workerID : HandleReturn(l)
    \/ \E l \in DOMAIN workerID : HandlePanic(l)
    \/ \E l \in DOMAIN workerID : finish(l)
    \/ \E l \in DOMAIN workerID : BatchLimit(l)
    \/ \E l \in DOMAIN workerID : releaseGroup(l)

AppSpec == AppSpecInit /\ [][AppNext]_vars

\* Callers of PublishBatch alone: every list of at most MaxBatchEvents entries,
\* among them nil entries, events of no known type and events that fail
\* validation, MaxEvents entries in all.
BatchEvents ==
    {Event("create", A1, D0, << >>), Event("create", A1, D0, <<B1>>),
     Event("create", C1, D0, << >>), Event("update", A1, DX, << >>),
     Event("delete", B1, NoData, << >>), Event("set_relations", A1, NoData, <<C1>>),
     NilEvent, UnknownEvent}

EventLists == UNION {[1..n -> BatchEvents] : n \in 0..MaxBatchEvents}

BatchSpecInit == InitQueue({[l \in {1} |-> "w1"]}, {"nil"})

BatchNext == \E evs \in EventLists : PublishBatch(evs)

BatchSpec == BatchSpecInit /\ [][BatchNext]_vars


\* main up to the validated schema: every resource configuration of at most
\* MaxConfigs configs with at most MaxRelations relations each, over two
\* resource names, in every order, with relations to them and to a resource
\* no config declares, with and without a dependance, and entries that
\* Validate rejects.
SchemaNames == {"a", "b"}
RelationConfigs ==
    {RelationConfig(to, <<"f">>, dep) : to \in SchemaNames, dep \in {"", "b"}}
        \cup {RelationConfig("x", <<"f">>, ""), RelationConfig("a", << >>, "")}
RelationLists == UNION {[1..n -> RelationConfigs] : n \in 0..MaxRelations}
ResourceConfigs ==
    {Config(name, <<"f">>, rels) : name \in SchemaNames, rels \in RelationLists}
        \cup {Config("b", << >>, << >>), Config("", << >>, << >>)}
Schemas == UNION {[1..n -> ResourceConfigs] : n \in 0..MaxConfigs}

SchemaSpecInit == InitQueue({[l \in {1} |-> "w1"]}, {"nil"})

SchemaNext ==
    \/ \E c \in Schemas : loadResourceConfig(c)
    \/ Validate

SchemaSpec == SchemaSpecInit /\ [][SchemaNext]_vars

\* One Worker with one loop whose handler succeeds, its reaperLoop and
\* cleanerLoop, callers that enqueue, and the shutdown: Stop, stopCtx's
\* deadline, and the cancellation of the ctx given to Start.  Every goroutine
\* keeps taking its steps; the deadline and the cancellation may never come.
StopNext ==
    \/ Enqueue({NULL})
    \/ \E l \in DOMAIN workerID : claimGroup(l)
    \/ \E l \in DOMAIN workerID : claimNextJobInGroup(l)
    \/ \E l \in DOMAIN workerID, e \in handler : HandlerReturn(l, e)
    \/ \E l \in DOMAIN workerID : finish(l)
    \/ \E l \in DOMAIN workerID : BatchLimit(l)
    \/ \E l \in DOMAIN workerID : releaseGroup(l)
    \/ \E l \in DOMAIN workerID : LoopExit(l)
    \/ \E l \in DOMAIN workerID : BatchStop(l)
    \/ Tick
    \/ reaperLoop("w1")
    \/ reaperLoopReturn("w1")
    \/ cleanerLoopReturn("w1")
    \/ Stop("w1")
    \/ StopCtxDone("w1")
    \/ StopTimesOut("w1")
    \/ StopReturnsNil("w1")
    \/ CancelCtx("w1")

StopSpecInit == InitQueue({[l \in {1} |-> "w1"]}, {"nil"})

WorkerLoop(l) ==
    \/ AliveLoop(l)
    \/ LoopExit(l)
    \/ BatchStop(l)

StopSpec ==
    /\ StopSpecInit
    /\ [][StopNext]_vars
    /\ WF_vars(WorkerLoop(1))
    /\ WF_vars(reaperLoopReturn("w1"))
    /\ WF_vars(cleanerLoopReturn("w1"))
    /\ WF_vars(StopReturnsNil("w1"))

\* Two LeaderElectors on one LockName, each with a reaper and a cleanup task
\* and with either policy; start hooks and tasks that fail or not;
\* connections that are lost; the cancellation of each Run's ctx.
LeaderNext ==
    \/ \E e \in Electors, policy \in Policies : NewLeaderElector(e, policy)
    \/ \E e \in Electors : tryAcquire(e)
    \/ \E e \in Electors, err \in {ErrNil, "transient"} : OnStartLeading(e, err)
    \/ \E e \in Electors : runAsLeader(e)
    \/ \E e \in Electors, t \in Tasks : TaskFails(e, t)
    \/ \E e \in Electors, t \in Tasks : TaskReturns(e, t)
    \/ \E e \in Electors : monitorLeaderConn(e)
    \/ \E e \in Electors : LeaderSelect(e)
    \/ \E e \in Electors : StopLeading(e)
    \/ \E e \in Electors : OnStopLeading(e)
    \/ \E e \in Electors : ConnLost(e)
    \/ \E e \in Electors : CancelRun(e)
    \/ \E e \in Electors : RunReturns(e)

LeaderSpecInit == InitQueue({[l \in {1} |-> "w1"]}, {"nil"})

LeaderSpec == LeaderSpecInit /\ [][LeaderNext]_vars

\* The same electors, over MaxLiveTerms terms each, when every goroutine keeps
\* running: a task returns once its ctx is done, runAsLeader and Run go on
\* after the tasks have returned.
LeaderLiveNext == LeaderNext /\ \A e \in Electors : elector'[e].terms <= MaxLiveTerms

LeaderLiveSpec ==
    /\ LeaderSpecInit
    /\ [][LeaderLiveNext]_vars
    /\ \A e \in Electors :
          /\ WF_vars(StopLeading(e))
          /\ WF_vars(OnStopLeading(e))
          /\ \A t \in Tasks : WF_vars(TaskReturns(e, t))

\* A job enqueued with a max_attempts of the caller's choice, claimed and
\* failed until it is dead.
RetrySpecInit ==
    /\ InitProgram({[l \in {1} |-> "w1"]}, {"nil"})
    /\ \E m \in 1 .. MaxBudget : LadderInit(m)
    /\ TextInit
    /\ MemoryInit

RetrySpec == RetrySpecInit /\ [][LadderNext]_vars

\* A job whose handler fails with messages of several lengths and whose lease
\* expires up to MaxReaps times.
TextSpecInit == InitQueue({[l \in {1} |-> "w1"]}, {"nil"})

TextSpec == TextSpecInit /\ [][TextNext]_vars

\* A PostgresStore and a MemoryStore, both empty, that receive the same calls
\* of AddRelations, RemoveRelation and RemoveResource.
BothSpecInit == InitQueue({[l \in {1} |-> "w1"]}, {"nil"})

BothSpec == BothSpecInit /\ [][BothNext]_vars

\* ------------------------------------------------------------------ claims
Terminal == {"succeeded", "dead"}

SameGroup(j1, j2) == jobs[j1].job_group = jobs[j2].job_group

\* C1: within a group, a job is claimed (queued -> running) only when every
\* job of the group with a smaller ordering_seq is succeeded or dead.
C1_GroupOrder ==
    [][\A j2 \in DOMAIN jobs :
          (j2 \in DOMAIN jobs' /\ jobs[j2].status = "queued" /\ jobs'[j2].status = "running")
          => \A j1 \in DOMAIN jobs :
                (j1 < j2 /\ SameGroup(j1, j2)) => jobs[j1].status \in Terminal]_vars

\* C2: while a group's lease is unexpired its row changes only by being
\* extended, under a running handler of its holder, or cleared, by a releasing
\* loop of its holder: it never passes to another worker.
C2_OneLeaseHolder ==
    [][\A g \in DOMAIN groups :
          LET old == groups[g]
              new == groups'[g]
              held == old.locked_until # NULL /\ old.locked_until >= now
              holder(l) == workerID[l] = old.locked_by /\ loops[l].group = g
          IN  (g \in DOMAIN groups' /\ held /\ new # old)
              => \/ /\ new.locked_by = old.locked_by
                    /\ new.locked_until > old.locked_until
                    /\ \E l \in DOMAIN workerID : holder(l) /\ loops[l].pc = "running"
                 \/ /\ new = NewGroupRow
                    /\ \E l \in DOMAIN workerID :
                          /\ holder(l)
                          /\ loops[l].pc \in {"release", "releaseExit"}
                          /\ loops'[l].pc \in {"idle", "exit"}]_vars

\* C2 witness: a lease that expired under a running handler is held, unexpired,
\* by a loop of another worker.
C2_Witness ==
    \E l1, l2 \in DOMAIN workerID :
        /\ workerID[l1] # workerID[l2]
        /\ loops[l1].pc = "running"
        /\ loops[l2].pc \in {"batch", "running"}
        /\ loops[l1].group = loops[l2].group
        /\ LeaseCheck(loops[l2].group, workerID[l2]) = "true"

StatusEdges ==
    {<<"queued", "running">>, <<"running", "succeeded">>,
     <<"running", "queued">>, <<"running", "dead">>}

\* C3: rows are inserted queued, and a row's status changes only along
\* queued->running, running->succeeded, running->queued, running->dead.
C3_StatusEdges ==
    [][\A j \in DOMAIN jobs' :
          IF j \in DOMAIN jobs
          THEN \/ jobs'[j].status = jobs[j].status
               \/ <<jobs[j].status, jobs'[j].status>> \in StatusEdges
          ELSE jobs'[j].status = "queued"]_vars

\* C3 witness: a loop is about to run the UPDATE of finish on a job that is
\* already succeeded or dead.
C3_Witness ==
    \E l \in DOMAIN workerID :
        /\ loops[l].pc = "finish"
        /\ loops[l].job \in DOMAIN jobs
        /\ jobs[loops[l].job].status \in Terminal

\* C5: the UPDATE of finish by a loop whose job row is no longer locked by its
\* worker leaves the jobs table as it was.
C5_StaleFinish ==
    [][\A l \in DOMAIN workerID :
          (/\ loops[l].pc = "finish"
           /\ loops'[l].pc # "finish"
           /\ loops[l].job \in DOMAIN jobs
           /\ jobs[loops[l].job].locked_by # workerID[l])
          => jobs' = jobs]_vars

\* C5 witness: a loop inside finish whose job was requeued and is now running
\* under another worker.
C5_Witness ==
    \E l \in DOMAIN workerID :
        /\ loops[l].pc = "finish"
        /\ loops[l].job \in DOMAIN jobs
        /\ jobs[loops[l].job].status = "running"
        /\ jobs[loops[l].job].locked_by \notin {workerID[l], NoWorker}
        /\ ReapNote \in {jobs[loops[l].job].last_error[i] :
                            i \in DOMAIN jobs[loops[l].job].last_error}

\* A queued job has used up the attempts the model counts: no loop can claim it.
AttemptsSpent == \E k \in DOMAIN jobs : jobs[k].status = "queued" /\ jobs[k].attempts >= AttemptCap

\* C4: a job that is running under a crashed worker eventually returns to
\* queued and is eventually running again under the live worker (unless a
\* job reaches the attempt count at which the model stops counting).
C4_Redelivery ==
    \A j \in 1..MaxJobs :
        LET Orphaned == /\ loops[1].pc = "crashed"
                        /\ loops[1].job = j
                        /\ jobs[j].status = "running"
                        /\ jobs[j].locked_by = "w1"
        IN  /\ Orphaned ~> (jobs[j].status = "queued")
            /\ Orphaned ~> \/ jobs[j].status = "running" /\ jobs[j].locked_by = "w2"
                           \/ AttemptsSpent

\* C4 witness: the job the crashed loop had claimed was requeued by the reaper
\* and is running under the live worker.
C4_Witness ==
    /\ loops[1].pc = "crashed"
    /\ loops[1].job \in DOMAIN jobs
    /\ jobs[loops[1].job].status = "running"
    /\ jobs[loops[1].job].locked_by = "w2"
    /\ jobs[loops[1].job].last_error = <<ReapNote>>

\* C6: every job row that a step removes from the jobs table was succeeded or
\* dead before the step.
C6_CleanupKeepsLive ==
    [][\A j \in DOMAIN jobs \ DOMAIN jobs' : jobs[j].status \in Terminal]_vars

\* C7: the jobs insert of an Enqueue call finds the group row that the call's
\* first statement upserted, and after it both the group row and the job row
\* exist.
C7_EnqueueAtomic ==
    [][(enq # NoCall /\ enq' = NoCall)
          => /\ enq.group \in DOMAIN groups'
             /\ nextSeq \in DOMAIN jobs'
             /\ jobs'[nextSeq].job_group = enq.group]_vars

\* C8: a job enqueued without MaxAttempts is inserted with a positive
\* max_attempts, and when the first attempt of a job with the default
\* max_attempts ends in a plain error, finish requeues it with a backoff delay.
C8_DefaultRetryBudget ==
    [][/\ (enq # NoCall /\ enq' = NoCall /\ enq.opts.MaxAttempts = NULL
              /\ nextSeq \in DOMAIN jobs')
          => jobs'[nextSeq].max_attempts >= 1
       /\ \A l \in DOMAIN workerID :
            LET j == loops[l].job
            IN  (/\ loops[l].pc = "finish"
                 /\ loops'[l].pc # "finish"
                 /\ loops[l].runErr = "transient"
                 /\ ~ctxDone[workerID[l]]
                 /\ j \in DOMAIN jobs
                 /\ jobs[j].status = "running"
                 /\ jobs[j].locked_by = workerID[l]
                 /\ jobs[j].attempts = 1
                 /\ jobs[j].max_attempts = DefaultMaxAttempts)
                => /\ jobs'[j].status = "queued"
                   /\ jobs'[j].run_after > now]_vars

\* The finish step of loop l for a handler error, taken while the worker holds
\* the job's lease and its context is live.
FinishesError(l) ==
    /\ loops[l].pc = "finish"
    /\ loops'[l].pc # "finish"
    /\ loops[l].runErr # ErrNil
    /\ ~ctxDone[workerID[l]]
    /\ loops[l].job \in DOMAIN jobs
    /\ jobs[loops[l].job].status = "running"
    /\ jobs[loops[l].job].locked_by = workerID[l]

EndsDead(j) ==
    /\ jobs'[j].status = "dead"
    /\ jobs'[j].finished_at = now
    /\ jobs'[j].last_error # << >>

EndsRequeued(j) ==
    /\ jobs'[j].status = "queued"
    /\ jobs'[j].run_after >= now
    /\ jobs'[j].last_error # << >>
    /\ jobs'[j].locked_by = NoWorker

C10_CancelRequeues ==
    [][\A l \in DOMAIN workerID :
          LET j == loops[l].job
          IN  (/\ FinishesError(l)
               /\ loops[l].cancelled
               /\ loops[l].runErr = "canceled"
               /\ jobs[j].max_attempts >= 1)
              => /\ jobs'[j].status = "queued"
                 /\ jobs'[j].run_after = now]_vars

\* ---------------------------------------------- claims on the relation store
Range(seq) == {seq[i] : i \in DOMAIN seq}

\* C17: a SetRelations(p, [c1..cn]) with n >= 1 returns nil and leaves
\* GetChildResources(p) = {c1..cn}, and the rows of every other parent as
\* they were.
C17_SetRelationsExact ==
    [][\A p \in Resources : \A rr \in ChildLists(p) :
          SetRelations(p, rr) /\ Len(rr) >= 1 =>
              /\ call'.err = ErrNil
              /\ GetChildResources(relations', p) = Range(rr)
              /\ \A rel \in Relation : rel.Parent # p => relations'[rel] = relations[rel]]_vars

\* SetRelations replaced p's children by a list in which a child repeats,
\* while another parent has a child of its own.
C17_Witness ==
    /\ call.op = "SetRelations"
    /\ Len(call.args[2]) = 2
    /\ call.args[2][1] = call.args[2][2]
    /\ \E rel \in Relation : rel.Parent # call.args[1] /\ relations[rel] > 0

\* C18: a SetRelations(p, []) returns nil and leaves GetChildResources(p)
\* empty.
C18_SetEmptyCommits ==
    [][\A p \in Resources :
          SetRelations(p, << >>) =>
              /\ call'.err = ErrNil
              /\ GetChildResources(relations', p) = {}]_vars

\* C19: no (parent, child) pair ever has two rows, and an AddRelations(B),
\* whatever B repeats or the table already holds, returns nil and leaves a
\* table that a second AddRelations(B) would not change.
C19_AddRelationsDedup ==
    [][/\ \A rel \in Relation : relations'[rel] <= 1
       /\ \A rels \in Batches :
             AddRelations(rels) =>
                 /\ call'.err = ErrNil
                 /\ \A rel \in Range(rels) : relations'[rel] = 1
                 /\ \A rel \in Relation \ Range(rels) : relations'[rel] = relations[rel]
                 /\ addRelationsBatch(relations', rels) = [table |-> relations', err |-> ErrNil]]_vars

\* AddRelations was given a batch that names one pair twice.
C19_Witness ==
    /\ call.op = "AddRelations"
    /\ Len(call.args) = 2
    /\ call.args[1] = call.args[2]
    /\ relations[call.args[1]] = 1

\* C20: a RemoveResource(r) leaves GetChildResources(r) empty and every row
\* whose parent is not r, those with r as the child among them, as it was.
C20_RemoveResourceFrame ==
    [][\A r \in Resources :
          RemoveResource(r) =>
              /\ GetChildResources(relations', r) = {}
              /\ GetParentResources(relations', r) = GetParentResources(relations, r)
              /\ \A rel \in Relation : rel.Parent # r => relations'[rel] = relations[rel]]_vars

\* RemoveResource(r) ran on a resource that is still some parent's child.
C20_Witness ==
    /\ call.op = "RemoveResource"
    /\ GetParentResources(relations, call.args) # {}

\* ------------------------------------------------- claims on the pipeline
\* The queue has drained: every job is succeeded or dead.
Drained == \A j \in DOMAIN jobs : jobs[j].status \in {"succeeded", "dead"}
AllSucceeded == \A j \in DOMAIN jobs : jobs[j].status = "succeeded"
Inlined(p) == IF docs[p] = NoDoc THEN {} ELSE DOMAIN docs[p].children
\* Every Register call so far succeeded and published an event of ops.
PublishedOnly(ops) ==
    \A i \in DOMAIN published :
        published[i].err = ErrNil /\ published[i].event.op \in ops

\* C11: once the queue has drained, the children inlined in the document of
\* every resource P that has one are GetChildResources(P).  Stated for the
\* runs of successful create, add_relation, remove_relation and delete calls
\* in which every job succeeded.
C11_InlinedMatchStore ==
    /\ PublishedOnly({"create", "add_relation", "remove_relation", "delete"})
    /\ Drained /\ AllSucceeded
    =>
        \A p \in Resources :
            docs[p] # NoDoc => Inlined(p) = GetChildResources(relations, p)

\* C12: after create(a/1, child b/1) and then create(b/1), with backends that
\* do not fail, the drained queue leaves a document of b/1 that inlines a/1,
\* whichever of b/1's two jobs ran first.
C12_FanOut ==
    /\ published = <<Ok(Event("create", A1, D0, <<B1>>)), Ok(Event("create", B1, D0, << >>))>>
    /\ handler = {"nil"}
    /\ Drained
    => docs[B1] # NoDoc /\ A1 \in Inlined(B1)

\* The add_relation job of the fan-out was enqueued, and ran, before the
\* create job of b/1.
C12_Witness ==
    /\ published = <<Ok(Event("create", A1, D0, <<B1>>)), Ok(Event("create", B1, D0, << >>))>>
    /\ handler = {"nil"}
    /\ Drained
    /\ \E j, k \in DOMAIN jobs :
          /\ j < k
          /\ payloads[j].type = "add_relation"
          /\ payloads[j].payload.Relation.Parent = B1
          /\ payloads[k].type = "create"
          /\ payloads[k].payload.Resource = B1
    /\ A1 \in Inlined(B1)

\* The delete of r was published, and no later event is about r or names r
\* as a related resource.
DeletedFor(r) ==
    \E i \in DOMAIN published :
        /\ published[i] = Ok(Event("delete", r, NoData, << >>))
        /\ \A k \in DOMAIN published :
              k > i => /\ published[k].event.Resource # r
                       /\ r \notin Range(published[k].event.Relations)

\* C13: once delete(R) is published and the queue has drained, R has no
\* document and no document inlines R, whatever events for other resources
\* follow.  Stated for the runs in which every job succeeded.
C13_DeletedStaysGone ==
    \A r \in Resources :
        DeletedFor(r) /\ Drained /\ AllSucceeded =>
            /\ docs[r] = NoDoc
            /\ \A p \in Resources : r \notin Inlined(p)

\* C14: after create, update(field1 = x), update(field1 = y) of a/1 the
\* drained queue leaves a document with fields.field1 = y, also when the
\* backends fail handler calls.
C14_LastWriteWins ==
    /\ published = <<Ok(Event("create", A1, D0, << >>)), Ok(Event("update", A1, DX, << >>)),
                     Ok(Event("update", A1, DY, << >>))>>
    /\ Drained
    => docs[A1] # NoDoc /\ docs[A1].fields["field1"] = "y"

\* C15: after create(b/1), create(a/1, no children) and add_relation(a/1, b/1)
\* the drained queue leaves the document of a/1 that create(a/1, children b/1)
\* builds.  Stated for the runs in which every job succeeded.
C15_CreateEqualsAddRelation ==
    /\ published = <<Ok(Event("create", B1, D0, << >>)), Ok(Event("create", A1, D0, << >>)),
                     Ok(Event("add_relation", A1, NoData, <<B1>>))>>
    /\ Drained /\ AllSucceeded
    => docs[A1] = buildDocument(docs, "a", D0, {B1})

\* C16: a Register call that returns an error leaves the relations table and
\* the tables of the queue as they were.
C16_FailedRegisterNoEffect ==
    [][\A e \in Events :
          Register(e) /\ call'.err # ErrNil =>
              /\ relations' = relations
              /\ jobs' = jobs
              /\ groups' = groups
              /\ payloads' = payloads]_vars

\* ------------------------------------------- claims on the queue, continued
\* C30: a run of the reaper turns every job that is running with locked_until
\* in the past into a queued job without lock, with run_after = now and the
\* note appended to last_error, its other columns as they were; it leaves
\* every other job row and every job_groups row as it was.
C30_ReaperFrame ==
    [][ReapExpiredRunning =>
          /\ groups' = groups
          /\ DOMAIN jobs' = DOMAIN jobs
          /\ \A j \in DOMAIN jobs :
                IF /\ jobs[j].status = "running"
                   /\ jobs[j].locked_until # NULL
                   /\ jobs[j].locked_until < now
                THEN /\ jobs'[j].status = "queued"
                     /\ jobs'[j].locked_by = NoWorker
                     /\ jobs'[j].locked_until = NULL
                     /\ jobs'[j].run_after = now
                     /\ jobs'[j].last_error = Append(jobs[j].last_error, ReapNote)
                     /\ jobs'[j].attempts = jobs[j].attempts
                     /\ jobs'[j].max_attempts = jobs[j].max_attempts
                     /\ jobs'[j].job_group = jobs[j].job_group
                     /\ jobs'[j].started_at = jobs[j].started_at
                     /\ jobs'[j].finished_at = jobs[j].finished_at
                ELSE jobs'[j] = jobs[j]]_vars

\* C30 witness: the reaper requeued one job and left alone another that is
\* running under a lease.
C30_Witness ==
    \E j, k \in DOMAIN jobs :
        /\ j # k
        /\ jobs[j].status = "queued"
        /\ jobs[j].attempts >= 1
        /\ jobs[j].last_error # << >>
        /\ jobs[j].last_error[Len(jobs[j].last_error)] = ReapNote
        /\ jobs[k].status = "running"
        /\ jobs[k].locked_until >= now

\* C27: a loop that leaves the batch loop of a group while its worker holds the
\* group's lease leaves the row with locked_by = NULL and locked_until = NULL;
\* only then is it back at the top of its loop, or gone.
C27_ReleaseOnLeave ==
    [][\A l \in DOMAIN workerID :
          LET g == loops[l].group
          IN  (/\ loops[l].pc \in {"batch", "release", "releaseExit"}
               /\ loops'[l].pc \in {"idle", "exit"}
               /\ LeaseCheck(g, Me(l)) = "true")
              => /\ g \in DOMAIN groups'
                 /\ groups'[g].locked_by = NoWorker
                 /\ groups'[g].locked_until = NULL]_vars

\* The job row of loop l is still the one of the attempt that l claimed.
SameAttempt(l) ==
    /\ loops[l].job \in DOMAIN jobs
    /\ jobs[loops[l].job].status = "running"
    /\ jobs[loops[l].job].locked_by = Me(l)
    /\ jobs[loops[l].job].attempts = loops[l].attempts

\* The step returns job j to queued the way the reaper does.
Reaped(j) ==
    /\ j \in DOMAIN jobs'
    /\ jobs'[j].status = "queued"
    /\ jobs'[j].locked_by = NoWorker
    /\ jobs'[j].last_error = Append(jobs[j].last_error, ReapNote)

\* No loop is running job j or finishing it.
Abandoned(j) ==
    \A l \in DOMAIN workerID : ~(loops[l].job = j /\ loops[l].pc \in {"running", "finish"})

\* C28: once the heartbeat of a running job has updated zero rows, the
\* handler's scope is cancelled and runOne does not call finish; the job row of that attempt, while it is running, changes
\* only by being requeued by the reaper, before the handler returns and after
\* the loop has left the job.
C28_LeaseLostLeftToReaper ==
    [][/\ \A l \in DOMAIN workerID :
            (loops[l].pc = "running" /\ loops[l].leaseLost)
            => /\ loops[l].cancelled
               /\ loops'[l].pc # "finish"
               /\ (SameAttempt(l) /\ jobs'[loops[l].job] # jobs[loops[l].job])
                     => Reaped(loops[l].job)
       /\ \A j \in DOMAIN jobs :
            (/\ jobs[j].status = "running"
             /\ Abandoned(j)
             /\ j \in DOMAIN jobs' => jobs'[j] # jobs[j])
            => Reaped(j)]_vars

\* C28 witness: the heartbeat found the group row under another worker and
\* reported the lease lost; the job row is still running under this worker.
C28_Witness ==
    \E l \in DOMAIN workerID :
        /\ loops[l].pc = "running"
        /\ loops[l].leaseLost
        /\ SameAttempt(l)
        /\ groups[loops[l].group].locked_by \notin {Me(l), NoWorker}

\* C24: a job_groups row that a step deletes was unlocked (locked_until NULL
\* or in the past) and had no job row referencing it before the step.
C24_GroupDeletedOnlyIdle ==
    [][\A g \in DOMAIN groups \ DOMAIN groups' :
          /\ groups[g].locked_until = NULL \/ groups[g].locked_until < now
          /\ \A j \in DOMAIN jobs : jobs[j].job_group # g]_vars

\* --------------------------------------------- claims on the Index service
\* The entries of a list that are not nil, in order.
NonNil(evs) == SelectSeq(evs, LAMBDA e : e # NilEvent)

\* The state after the events of log were applied one after the other, the
\* effects of each kept.
RECURSIVE AppliedInOrder(_, _)
AppliedInOrder(S, log) ==
    IF log = << >> THEN S
    ELSE AppliedInOrder(applyOne(S, Head(log).event).state, Tail(log))

\* C26: PublishBatch applies the events of its list in order up to the first
\* that fails: the applied events are a prefix of the list, only the last of
\* them may have failed, the call returns that event's error (nil when none
\* failed, and then every event was applied), and the state is the one the
\* applied events leave one after the other, nothing undone.
C26_BatchStopsAtFirstFailure ==
    [][(call'.op = "PublishBatch" /\ PublishBatch(call'.args)) =>
              LET evs == call'.args
                  applied == SubSeq(published', Len(published) + 1, Len(published'))
                  S == AppliedInOrder(AppState, applied)
              IN  /\ Len(applied) <= Len(NonNil(evs))
                  /\ \A i \in DOMAIN applied : applied[i].event = NonNil(evs)[i]
                  /\ \A i \in DOMAIN applied : i < Len(applied) => applied[i].err = ErrNil
                  /\ IF call'.err = ErrNil
                     THEN /\ Len(applied) = Len(NonNil(evs))
                          /\ \A i \in DOMAIN applied : applied[i].err = ErrNil
                     ELSE /\ applied # << >>
                          /\ applied[Len(applied)].err = call'.err
                  /\ relations' = S.relations
                  /\ jobs' = S.jobs
                  /\ groups' = S.groups
                  /\ payloads' = S.payloads
                  /\ docs' = S.docs]_vars

\* C26 witness: a batch of three entries whose first event enqueued its job,
\* whose second failed, and whose third was not applied.
C26_Witness ==
    /\ call.op = "PublishBatch"
    /\ call.err # ErrNil
    /\ Len(call.args) = 3
    /\ \A i \in DOMAIN call.args : call.args[i] # NilEvent
    /\ Len(published) = 2
    /\ published[1] = Ok(call.args[1])
    /\ published[2] = Returned(call.args[2], call.err)
    /\ 1 \in DOMAIN jobs
    /\ payloads[1].type = call.args[1].op

\* ------------------------------------------------------- claims on the schema
\* The schema declares a relation from resource A to resource B.
Declares(c, A, B) ==
    \E k \in 1..Len(c) :
        c[k].Resource = A /\ \E i \in 1..Len(c[k].Relations) : c[k].Relations[i].Resource = B

C23_GracefulStopReturnsNil ==
    stopFetch["w1"] ~> (stop["w1"].ret = "nil" \/ ctxDone["w1"] \/ stop["w1"].forced)

\* -------------------------------------------- claims on the leader elector
\* The leader state: IsLeader is true and a task of the elector is running.
InLeaderState(e) == IsLeader(e) /\ \E t \in Tasks : elector[e].term.tasks[t] = "running"

\* C21: among the electors of one lock name at most one is in the leader state.
C21_AtMostOneLeader ==
    \A e, f \in Electors : (InLeaderState(e) /\ InLeaderState(f)) => e = f

\* runAsLeader takes a task's error from taskErrCh.
TakesTaskError(e) ==
    /\ elector[e].pc = "leading"
    /\ Len(elector'[e].term.taskErrCh) < Len(elector[e].term.taskErrCh)

\* runAsLeader is stopping because of a task's error.
DroppedForTask(e) == elector[e].pc \in {"stopping", "led"} /\ elector[e].term.reason = "task"

\* C22: when runAsLeader takes a task's error, under the drop policy (the
\* default) it cancels the tasks' ctx and stops leading: it releases the lock
\* once the tasks have returned and then Run is back in the election (or has
\* returned, its ctx cancelled); under log-and-continue it stays leader, holds
\* the lock it held, and the other tasks keep running.
C22_TaskErrorPolicy ==
    /\ [][\A e \in Electors :
            /\ (TakesTaskError(e) /\ elector[e].policy = TaskErrorLogAndContinue) =>
                   /\ elector'[e].pc = "leading"
                   /\ IsLeader(e)' /\ ~elector'[e].term.cancelled
                   /\ advisoryLock' = advisoryLock
                   /\ elector'[e].term.tasks = elector[e].term.tasks
            /\ (TakesTaskError(e) /\ elector[e].policy # TaskErrorLogAndContinue) =>
                   /\ elector[e].policy = TaskErrorDropLeadership
                   /\ elector'[e].pc = "stopping"
                   /\ elector'[e].term.cancelled
                   /\ elector'[e].term.reason = "task"
            /\ (DroppedForTask(e) /\ elector[e].pc = "stopping" /\ elector'[e].pc # "stopping") =>
                   /\ elector'[e].pc = "led"
                   /\ TasksReturned(e)
                   /\ advisoryLock' # e
            /\ (DroppedForTask(e) /\ elector[e].pc = "led" /\ elector'[e].pc # "led") =>
                   /\ elector'[e].pc \in {"electing", "returned"}
                   /\ ~IsLeader(e)'
                   /\ advisoryLock' # e]_vars
    /\ \A e \in Electors :
          DroppedForTask(e) ~> (elector[e].pc \in {"electing", "returned"})

\* An elector under the drop policy has taken the error of one task and
\* cancelled the ctx of the other, which is still running.
C22_Witness ==
    /\ elector["n1"].policy = TaskErrorDropLeadership
    /\ elector["n1"].pc = "stopping"
    /\ elector["n1"].term.reason = "task"
    /\ elector["n1"].term.tasks = [t \in Tasks |-> IF t = "reaper" THEN "returned" ELSE "running"]
    /\ advisoryLock = "n1"

\* C29: in each term OnStartLeading is called once and before any task
\* starts; when it fails no task is started and the lock is released; when it
\* succeeds the term ends with exactly one call of OnStopLeading, made after
\* every task has returned.
C29_HooksOncePerTerm ==
    /\ [](\A e \in Electors :
            /\ elector[e].starts <= 1 /\ elector[e].stops <= 1
            /\ (\E t \in Tasks : elector[e].term.tasks[t] # "idle") =>
                   (elector[e].starts = 1 /\ elector[e].startErr = ErrNil)
            /\ elector[e].startErr # ErrNil =>
                   /\ \A t \in Tasks : elector[e].term.tasks[t] = "idle"
                   /\ advisoryLock # e
            /\ elector[e].stops = 1 =>
                   /\ elector[e].starts = 1 /\ elector[e].startErr = ErrNil
                   /\ \A t \in Tasks : elector[e].term.tasks[t] = "returned")
    /\ [][\A e \in Electors :
            (/\ elector[e].pc \in {"startTasks", "leading", "stopping", "led"}
             /\ elector'[e].pc \in {"electing", "returned"}) => elector'[e].stops = 1]_vars

\* One elector has finished a term, its tasks returned and OnStopLeading
\* called; the other's OnStartLeading has failed.
C29_Witness ==
    /\ elector["n1"].pc = "electing"
    /\ elector["n1"].stops = 1
    /\ \A t \in Tasks : elector["n1"].term.tasks[t] = "returned"
    /\ elector["n2"].pc = "electing"
    /\ elector["n2"].startErr # ErrNil

\* min(1 s * 2^(n-1), 5 min) as a duration, for n >= 1.
CappedDoubling(n) ==
    IF n - 1 > 30 THEN Seconds(BackoffCap)
    ELSE Seconds(Min(BackoffBase * 2^(n - 1), BackoffCap))

\* C31: the delay that finish gives a job requeued after a plain error at
\* attempts = n is min(1 s * 2^(n-1), 5 min): it is never below one second,
\* never above five minutes, and not smaller than the delay of any earlier
\* attempt, for every attempt count that a job can reach.
C31_BackoffCappedDoubling ==
    (ladder.status = "queued" /\ ladder.by = "finish") =>
        /\ ladder.delay = CappedDoubling(ladder.attempts)
        /\ ~Less(ladder.delay, Seconds(BackoffBase))
        /\ ~Less(Seconds(BackoffCap), ladder.delay)
        /\ \A m \in 1 .. ladder.attempts : ~Less(ladder.delay, defaultBackoff(m))

\* C32: the last_error stored on a job never has more than 2000 characters,
\* whatever the length of the handler's message and however often the job was
\* retried or reaped.
C32_LastErrorAtMost2000 == Len(errText.last_error) <= TruncMax

\* The jobs of group g that are running.
RunningIn(g) == {j \in DOMAIN jobs : jobs[j].job_group = g /\ jobs[j].status = "running"}

\* C33: in every reachable state each group has at most one job in status
\* running, also after the group's lease expired and another worker claimed the
\* group while the job of the previous holder is neither finished nor reaped.
C33_OneRunningPerGroup == \A g \in Groups : Cardinality(RunningIn(g)) <= 1

\* C34: the loops of one Worker share its WorkerID.  When the lease of the
\* group that loop a runs a job of has expired and loop b of the same Worker
\* claims the group, then from there on loop a is fenced: its heartbeat
\* reports the lease lost, the lease check of its claimNextJobInGroup and of
\* its finish fails, and its releaseGroup leaves the group's row alone.
C34_StaleLoopFenced ==
    [][\A a, b \in DOMAIN workerID :
          (/\ a # b
           /\ workerID[a] = workerID[b]
           /\ loops[b].pc = "idle"
           /\ loops'[b].pc = "batch"
           /\ loops[a].pc = "running"
           /\ loops[a].group = loops'[b].group)
          => /\ (~(HoldsGroupRow(loops[a].group, Me(a)) /\ HoldsJob(loops[a].job, Me(a))))'
             /\ (LeaseCheck(loops[a].group, Me(a)) # "true")'
             /\ (ReleasedGroups(loops[a].group, Me(a)) = groups)']_vars

\* C35: no job is claimed once its attempts have reached its max_attempts, so
\* a job with max_attempts >= 1 never has attempts > max_attempts, reaper
\* requeues included.
C35_AttemptsWithinBudget ==
    ladder.max_attempts >= 1 => ladder.attempts <= ladder.max_attempts

\* C38: the lock columns of every job agree with its status: a queued job has
\* locked_by and locked_until NULL; a running job has locked_by, locked_until
\* and started_at set; a succeeded or dead job has locked_until NULL and
\* finished_at set.
C38_LockFieldsAgreeWithStatus ==
    \A j \in DOMAIN jobs :
        /\ jobs[j].status = "queued" =>
                jobs[j].locked_by = NoWorker /\ jobs[j].locked_until = NULL
        /\ jobs[j].status = "running" =>
                /\ jobs[j].locked_by # NoWorker
                /\ jobs[j].locked_until # NULL
                /\ jobs[j].started_at # NULL
        /\ jobs[j].status \in {"succeeded", "dead"} =>
                jobs[j].locked_until = NULL /\ jobs[j].finished_at # NULL

\* C38 witness: a job that was claimed is queued again, and another job was
\* finished as succeeded and still names the worker that ran it.
C38_Witness ==
    \E j, k \in DOMAIN jobs :
        /\ jobs[j].status = "queued"
        /\ jobs[j].attempts >= 1
        /\ jobs[j].started_at # NULL
        /\ jobs[k].status = "succeeded"
        /\ jobs[k].locked_by # NoWorker

\* Elector e is giving up leadership because a task failed under the drop
\* policy or because its ctx was cancelled.
GivesUp(e) == elector[e].pc = "stopping" /\ elector[e].term.reason \in {"task", "canceled"}

\* Some task of e's term has not returned.
TaskRunning(e) == \E t \in Tasks : elector[e].term.tasks[t] = "running"

\* C39: when a leader gives up leadership because a task failed under the
\* drop policy or because the ctx was cancelled, the advisory lock is released
\* only after every task of the leader has returned: while one of its tasks
\* still runs it holds the lock, and no other elector's tasks run.
C39_UnlockAfterTasksReturn ==
    \A e \in Electors :
        (GivesUp(e) /\ TaskRunning(e)) =>
            /\ advisoryLock = e
            /\ \A f \in Electors \ {e} : ~TaskRunning(f)

\* C37: after the same sequence of AddRelations, RemoveRelation and
\* RemoveResource calls, the MemoryStore and the PostgresStore return the same
\* set of resources from GetParentResources and from GetChildResources, for
\* every resource.
C37_StoresInterchangeable ==
    \A r \in Resources :
        /\ Range(MemoryGetParentResources(memory, r)) = GetParentResources(relations, r)
        /\ MemoryGetChildResources(memory, r) = GetChildResources(relations, r)

\* Job j is queued and its run_after has passed.
Due(j) == jobs[j].status = "queued" /\ jobs[j].run_after <= now

\* The lease on group g is in force and its holder no longer extends it: the
\* loop of w1 has crashed, or the loop of w2 has left the batch loop.
LeftLocked(g) ==
    /\ ~GroupLeaseFree(g)
    /\ \/ groups[g].locked_by = "w1" /\ loops[1].pc = "crashed"
       \/ groups[g].locked_by = "w2" /\ loops[2].pc = "idle"

HandlersReturn == []<>(loops[1].pc # "running")

====
